---- MODULE Spec2Model ----
(***************************************************************************)
(* A model of the RE2 matching facade (src/re2/re2.cc): the compiled       *)
(* pattern object with its lazily built fields, the match orchestrator     *)
(* RE2::Match, and the convenience operations built on it.                 *)
(*                                                                         *)
(* Text is a sequence of one-character strings.  A StringPiece into a text *)
(* is a record [b, e] of byte offsets (0-based, half open); the NULL       *)
(* StringPiece is NullPiece.                                               *)
(*                                                                         *)
(* The parser, the compiler and the search engines are not part of         *)
(* re2.cc.  They are modelled by a small regular-expression language with  *)
(* one reference matcher (Parses / RefSearch) that every engine answers    *)
(* from, unless the engine is made to fail by the environment.             *)
(***************************************************************************)
EXTENDS Integers, Sequences, FiniteSets, TLC

\* ------------------------------------------------------------------ bounds

\* Longest text handed to Match.
MaxTextLen == 2

\* Largest nsubmatch handed to Match.
MaxNsub == 3

\* ------------------------------------------------------- program constants

\* Maximum number of args we can set.
kMaxArgs == 16

kVecSize == 1 + kMaxArgs

\* Prog::kMaxOnePassCapture, used by RE2::Match to compute can_one_pass.
kMaxOnePassCapture == 5

\* Conditions for using SearchBitState.
MaxBitStateProg == 500

MaxBitStateVector == 256 * 1024

\* Text sizes below which RE2::Match skips the DFA in favour of OnePass.
OnePassTextMax == 4096

OnePassTinyText == 8

\* ------------------------------------------------------------ basic values

Chars == {"a", "b", "A"}

\* ASCII lower-casing, as ascii_strcasecmp applies it to the text byte.
Lower(c) == IF c = "A" THEN "a" ELSE c

Min(x, y) == IF x <= y THEN x ELSE y

Piece(b, e) == [b |-> b, e |-> e]

\* StringPiece(NULL, 0).
NullPiece == [b |-> -1, e |-> -1]

\* What a caller's capture buffer holds before anything is stored in it.
Unwritten == [b |-> -2, e |-> -2]

PieceSize(p) == p.e - p.b

TextsUpTo(n) == UNION { [1..k -> Chars] : k \in 0..n }

\* The bytes text[b, e).
Bytes(text, b, e) == SubSeq(text, b + 1, e)

\* ----------------------------------------- regular expressions (external)
\* A parsed regexp is [valid, bot, atoms, eot, fold]: an optional leading ^,
\* a concatenation of atoms, an optional trailing $, and the case folding
\* flag.  An atom is [t, c, cap]: the literal c, c* or c? (both greedy),
\* wrapped in a capturing group when cap is set; (c)? leaves its group
\* unset when it matches nothing.

Lit(c) == [t |-> "lit", c |-> c, cap |-> FALSE]

Star(c) == [t |-> "star", c |-> c, cap |-> FALSE]

Cap(a) == [a EXCEPT !.cap = TRUE]

Opt(c) == [t |-> "opt", c |-> c, cap |-> FALSE]

Rx(bot, atoms, eot, fold) ==
    [null |-> FALSE, valid |-> TRUE, bot |-> bot, atoms |-> atoms, eot |-> eot,
     fold |-> fold]

\* A pattern the parser rejects, such as "[".
BadRx == [null |-> FALSE, valid |-> FALSE, bot |-> FALSE, atoms |-> <<>>,
          eot |-> FALSE, fold |-> FALSE]

\* A NULL Regexp* and a NULL Prog*.
NullRx == [null |-> TRUE]

NullProg == [null |-> TRUE]

\* Regexp::NumCaptures.
NumCaptures(atoms) == Cardinality({i \in 1..Len(atoms) : atoms[i].cap})

\* The capture index of atom i (meaningful when atoms[i].cap).
GroupIndex(atoms, i) == Cardinality({j \in 1..i : atoms[j].cap})

CharMatches(c, fold, x) == IF fold THEN Lower(x) = c ELSE x = c

\* Number of consecutive bytes matching c in text[pos, lim).
RECURSIVE RunLen(_, _, _, _, _)
RunLen(c, fold, text, pos, lim) ==
    IF pos < lim /\ CharMatches(c, fold, text[pos + 1])
    THEN 1 + RunLen(c, fold, text, pos + 1, lim)
    ELSE 0

\* Every way atoms[i..] match text starting at pos without passing lim, in
\* the priority order of a leftmost-first (greedy, backtracking) matcher.
\* Each parse is [e, caps]: where it ends and its capture groups.
RECURSIVE Parses(_, _, _, _, _, _, _)
Parses(atoms, fold, i, text, pos, lim, caps) ==
    IF i > Len(atoms) THEN << [e |-> pos, caps |-> caps] >>
    ELSE
      LET a == atoms[i]
          g == GroupIndex(atoms, i)
          run == RunLen(a.c, fold, text, pos, lim)
          Set(k) == IF a.cap THEN [caps EXCEPT ![g] = Piece(pos, pos + k)] ELSE caps
          Try(k) == Parses(atoms, fold, i + 1, text, pos + k, lim, Set(k))
          Skip == Parses(atoms, fold, i + 1, text, pos, lim, caps)
          RECURSIVE Down(_)
          Down(k) == IF k < 0 THEN <<>> ELSE Try(k) \o Down(k - 1)
      IN CASE a.t = "lit"  -> IF run >= 1 THEN Try(1) ELSE <<>>
           [] a.t = "opt"  -> (IF run >= 1 THEN Try(1) ELSE <<>>) \o Skip
           [] a.t = "star" -> Down(run)

\* A compiled program: the atoms with the anchors the compiler lifted out
\* of the regexp, and the program size.
MkProg(atoms, fold, astart, aend, size) ==
    [null |-> FALSE, atoms |-> atoms, fold |-> fold, anchor_start |-> astart,
     anchor_end |-> aend, size |-> size]

NoMatch == [found |-> FALSE, span |-> NullPiece, caps |-> <<>>]

\* The parse with the largest end among ps (the first of them on a tie).
RECURSIVE LongestOf(_, _, _)
LongestOf(ps, i, best) ==
    IF i > Len(ps) THEN best
    ELSE LongestOf(ps, i + 1, IF ps[i].e > best.e THEN ps[i] ELSE best)

\* The reference matcher: the answer of a search of text[sb, se) with the
\* whole text as context.  ^ matches only at the start of the context, $
\* only at its end; kFullMatch is anchored at both ends of [sb, se).
RECURSIVE RefFrom(_, _, _, _, _, _, _)
RefFrom(prog, s, se, text, anchored, endmatch, longest) ==
    LET init == [k \in 1..NumCaptures(prog.atoms) |-> NullPiece]
        Keep(p) == ~endmatch \/ p.e = se
        Found(pick) == [found |-> TRUE, span |-> Piece(s, pick.e), caps |-> pick.caps]
        Among(ps) ==
            IF Len(ps) > 0
            THEN Found(IF longest THEN LongestOf(ps, 2, ps[1]) ELSE ps[1])
            ELSE IF anchored \/ s >= se THEN NoMatch
            ELSE RefFrom(prog, s + 1, se, text, anchored, endmatch, longest)
    IN Among(SelectSeq(Parses(prog.atoms, prog.fold, 1, text, s, se, init), Keep))

RefSearch(prog, sb, se, text, anchor, kind) ==
    IF prog.anchor_start /\ sb # 0 THEN NoMatch
    ELSE IF prog.anchor_end /\ se # Len(text) THEN NoMatch
    ELSE RefFrom(prog, sb, se, text,
                 anchor = "kAnchored" \/ prog.anchor_start \/ kind = "kFullMatch",
                 prog.anchor_end \/ kind = "kFullMatch",
                 kind # "kFirstMatch")

\* ------------------------------------------------ search engines (external)
\* Prog::SearchDFA on the forward program.  A DFA that runs out of memory
\* reports failure; otherwise it answers from the reference matcher, and
\* reports the end of the match but not where it starts: the match it
\* returns begins where the searched text begins.
SearchDFA(prog, sb, se, text, anchor, kind, fail) ==
    LET Answer(r) ==
            IF ~r.found THEN [ok |-> FALSE, failed |-> FALSE, match |-> NullPiece]
            ELSE [ok |-> TRUE, failed |-> FALSE, match |-> Piece(sb, r.span.e)]
    IN IF fail THEN [ok |-> FALSE, failed |-> TRUE, match |-> NullPiece]
       ELSE Answer(RefSearch(prog, sb, se, text, anchor, kind))

\* The leftmost s in [s, me] from which the program matches exactly up to me.
RECURSIVE LeftmostStart(_, _, _, _)
LeftmostStart(prog, s, me, text) ==
    IF s > me THEN -1
    ELSE IF RefSearch(prog, s, me, text, "kAnchored", "kFullMatch").found THEN s
    ELSE LeftmostStart(prog, s + 1, me, text)

\* Prog::SearchDFA on the reverse program, anchored at the end of
\* text[mb, me) with kLongestMatch: the longest match running backward
\* from me, which is where the match starts.
SearchReverseDFA(prog, mb, me, text, fail) ==
    LET Answer(s) ==
            IF s < 0 THEN [ok |-> FALSE, failed |-> FALSE, match |-> NullPiece]
            ELSE [ok |-> TRUE, failed |-> FALSE, match |-> Piece(s, me)]
    IN IF fail THEN [ok |-> FALSE, failed |-> TRUE, match |-> NullPiece]
       ELSE Answer(LeftmostStart(prog, mb, me, text))

\* What a capture engine stores in submatch[0 .. ncap): the whole match and
\* the first ncap - 1 groups.
CaptureSearch(prog, sb, se, text, anchor, kind, ncap) ==
    LET Answer(r) ==
            [ok |-> r.found,
             sub |-> [i \in 0..(ncap - 1) |->
                         IF ~r.found THEN NullPiece
                         ELSE IF i = 0 THEN r.span ELSE r.caps[i]]]
    IN Answer(RefSearch(prog, sb, se, text, anchor, kind))

\* Prog::SearchOnePass, Prog::SearchBitState or Prog::SearchNFA, as engine
\* says: each of them answers from the reference matcher; none: the engine
\* reports no match whatever the text, as an engine at odds with the DFA
\* does.
SearchCaptures(engine, prog, sb, se, text, anchor, kind, ncap, none) ==
    IF none THEN [ok |-> FALSE, sub |-> [i \in 0..(ncap - 1) |-> NullPiece]]
    ELSE CaptureSearch(prog, sb, se, text, anchor, kind, ncap)

\* ------------------------------------------------- parser and compiler
\* Regexp::RequiredPrefix: a regexp that begins with ^ followed by literal
\* bytes splits into that literal prefix and the rest, without the ^.
RECURSIVE LiteralRun(_, _)
LiteralRun(atoms, i) ==
    IF i <= Len(atoms) /\ atoms[i].t = "lit" /\ ~atoms[i].cap
    THEN 1 + LiteralRun(atoms, i + 1)
    ELSE 0

RequiredPrefix(rx) ==
    LET n == LiteralRun(rx.atoms, 1)
    IN IF rx.bot /\ n > 0
       THEN [ok |-> TRUE,
             prefix |-> [i \in 1..n |-> rx.atoms[i].c],
             foldcase |-> rx.fold,
             suffix |-> Rx(FALSE, SubSeq(rx.atoms, n + 1, Len(rx.atoms)), rx.eot, rx.fold)]
       ELSE [ok |-> FALSE, prefix |-> <<>>, foldcase |-> FALSE, suffix |-> rx]

\* Regexp::CompileToProg: NULL when the program does not fit the budget.
CompileToProg(rx, fits, size) ==
    IF fits THEN MkProg(rx.atoms, rx.fold, rx.bot, rx.eot, size) ELSE NullProg

\* ------------------------------------------------------ the pattern object
\* RE2::Init that keeps quiet about a program that does not fit: the error
\* stays NoError.
REInitNoCompileError(rx, env, rp) ==
    LET base == [entire_regexp_ |-> NullRx, suffix_regexp_ |-> NullRx,
                 prefix_ |-> <<>>, prefix_foldcase_ |-> FALSE,
                 prog_ |-> NullProg, is_one_pass_ |-> FALSE,
                 longest_match |-> env.longest_match,
                 error_ |-> "empty_string", error_code_ |-> "NoError",
                 rprog_ |-> "NULL", named_groups_ |-> "NULL"]
        suffix == IF rp.ok THEN rp.suffix ELSE rx
        prog == CompileToProg(suffix, env.fits, env.size)
    IN IF ~rx.valid
       THEN [base EXCEPT !.error_ = "parse error", !.error_code_ = "ErrorMissingBracket"]
       ELSE [base EXCEPT !.entire_regexp_ = rx, !.suffix_regexp_ = suffix,
                         !.prefix_ = rp.prefix, !.prefix_foldcase_ = rp.foldcase,
                         !.prog_ = prog,
                         !.is_one_pass_ = ~prog.null /\ env.onepass]

\* RE2::Init.  env is what the construction meets outside re2.cc: whether
\* the forward program fits two thirds of max_mem, the size of the program,
\* whether it is one-pass, and the longest_match option.  rp is what
\* RequiredPrefix answers.
REInitWith(rx, env, rp) ==
    LET base == [entire_regexp_ |-> NullRx, suffix_regexp_ |-> NullRx,
                 prefix_ |-> <<>>, prefix_foldcase_ |-> FALSE,
                 prog_ |-> NullProg, is_one_pass_ |-> FALSE,
                 longest_match |-> env.longest_match,
                 error_ |-> "empty_string", error_code_ |-> "NoError",
                 rprog_ |-> "NULL", named_groups_ |-> "NULL"]
        suffix == IF rp.ok THEN rp.suffix ELSE rx
        prog == CompileToProg(suffix, env.fits, env.size)
        parsed == [base EXCEPT !.entire_regexp_ = rx,
                               !.suffix_regexp_ = suffix,
                               !.prefix_ = rp.prefix,
                               !.prefix_foldcase_ = rp.foldcase]
    IN IF ~rx.valid
       THEN [base EXCEPT !.error_ = "parse error", !.error_code_ = "ErrorMissingBracket"]
       ELSE IF prog.null
       THEN [parsed EXCEPT !.error_ = "pattern too large - compile failed",
                           !.error_code_ = "ErrorPatternTooLarge"]
       ELSE [parsed EXCEPT !.prog_ = prog, !.is_one_pass_ = env.onepass]

REInit(rx, env) == REInitWith(rx, env, RequiredPrefix(rx))

\* RE2::ok (re2.h): error_code() == NoError.
ok(o) == o.error_code_ = "NoError"

\* RE2::NumberOfCapturingGroups.
NumberOfCapturingGroups(o) ==
    IF o.suffix_regexp_.null THEN -1 ELSE NumCaptures(o.suffix_regexp_.atoms)

\* RE2::ProgramSize.
ProgramSize(o) == IF o.prog_.null THEN -1 ELSE o.prog_.size

\* The test of RE2::ReverseProg without the test of error_.
ReverseProgNeededIgnoringError(o) == o.rprog_ = "NULL"

\* The test of RE2::ReverseProg: whether the reverse program is to be
\* compiled.
ReverseProgNeeded(o) == o.rprog_ = "NULL" /\ o.error_ = "empty_string"

\* rprog_ = suffix_regexp_->CompileToReverseProg(max_mem/3).  fits: whether
\* the reverse program fits its budget; new: the program allocated.
ReverseProgCompiled(o, fits, new) ==
    IF fits THEN [o EXCEPT !.rprog_ = new] ELSE [o EXCEPT !.rprog_ = "NULL"]

\* What ReverseProg does when the compilation returned NULL.
ReverseProgFailed(o) ==
    [o EXCEPT !.error_ = "pattern too large - reverse compile failed",
              !.error_code_ = "ErrorPatternTooLarge"]

\* The body of RE2::ReverseProg, run with mutex_ held by a single caller:
\* what it returns and the object it leaves.
ReverseProg(o, fits) ==
    IF ReverseProgNeeded(o)
    THEN IF fits
         THEN [prog |-> "rprog", compiled |-> TRUE,
               o |-> ReverseProgCompiled(o, TRUE, "rprog")]
         ELSE [prog |-> "NULL", compiled |-> TRUE,
               o |-> ReverseProgFailed(ReverseProgCompiled(o, FALSE, "rprog"))]
    ELSE [prog |-> o.rprog_, compiled |-> FALSE, o |-> o]

\* named_groups_ = suffix_regexp_->NamedCaptures(), &empty_map if that is
\* NULL.  new: the map allocated, "NULL" when the regexp names no group.
NamedGroupsComputed(o, new) ==
    [o EXCEPT !.named_groups_ = IF new = "NULL" THEN "empty_map" ELSE new]

\* The body of RE2::NamedCapturingGroups, run with mutex_ held by a single
\* caller.
NamedCapturingGroups(o, new) ==
    IF ~ok(o) THEN [map |-> "empty_map", computed |-> FALSE, o |-> o]
    ELSE IF o.named_groups_ = "NULL"
    THEN [map |-> NamedGroupsComputed(o, new).named_groups_, computed |-> TRUE,
          o |-> NamedGroupsComputed(o, new)]
    ELSE [map |-> o.named_groups_, computed |-> FALSE, o |-> o]

\* ascii_strcasecmp(a, b, len) = 0, where a is known to be all lowercase.
ascii_strcasecmp_eq(a, b, len) == \A i \in 1..len : a[i] = Lower(b[i])

\* memcmp(a, b, len) = 0.
memcmp_eq(a, b, len) == \A i \in 1..len : a[i] = b[i]

\* ------------------------------------------------------------- RE2::Match
\* ch is what the engines meet: fwdFail and revFail say whether the forward
\* and the reverse DFA run out of memory.  rp is what the call of
\* ReverseProg() returns, if the match makes it.

\* "If the regexp is explicitly anchored, update re_anchor".
PromoteAnchor(prog, re_anchor) ==
    IF prog.anchor_start /\ prog.anchor_end THEN "ANCHOR_BOTH"
    ELSE IF prog.anchor_start /\ re_anchor # "ANCHOR_BOTH" THEN "ANCHOR_START"
    ELSE re_anchor

\* "Check for the required prefix, if any": TRUE when Match returns false
\* because the text does not start with prefix_.
PrefixFails(o, text, startpos) ==
    LET prefixlen == Len(o.prefix_)
        subtext == Bytes(text, startpos, Len(text))
    IN /\ o.prefix_ # <<>>
       /\ \/ prefixlen > Len(subtext)
          \/ IF o.prefix_foldcase_
             THEN ~ascii_strcasecmp_eq(o.prefix_, subtext, prefixlen)
             ELSE ~memcmp_eq(o.prefix_, subtext, prefixlen)

\* The anchor left as it is after a prefix matched.
PrefixAnchorKept(o, re_anchor) == re_anchor

\* "If there is a required prefix, the anchor must be at least ANCHOR_START."
PrefixAnchor(o, re_anchor) ==
    IF o.prefix_ # <<>> /\ re_anchor # "ANCHOR_BOTH" THEN "ANCHOR_START" ELSE re_anchor

\* The two tests that let an anchored search skip the DFA.
SkipDfaForOnePass(can_one_pass, tsize, ncap) ==
    can_one_pass /\ tsize <= OnePassTextMax /\ (ncap > 1 \/ tsize <= OnePassTinyText)

\* The BitState test without the limit on the text.
SkipDfaForBitStateAnyText(can_bit_state, tsize, bit_state_text_max, ncap) ==
    can_bit_state /\ ncap > 1

\* The BitState test without the condition on ncap.
SkipDfaForBitStateAnyCaptures(can_bit_state, tsize, bit_state_text_max, ncap) ==
    can_bit_state /\ tsize <= bit_state_text_max

SkipDfaForBitState(can_bit_state, tsize, bit_state_text_max, ncap) ==
    can_bit_state /\ tsize <= bit_state_text_max /\ ncap > 1

\* An engine anchor that is kAnchored always.
EngineAnchorAlwaysAnchored(skipped_test, re_anchor) == "kAnchored"

\* "anchor" when the captures are extracted: kUnanchored at first, set to
\* kAnchored by case ANCHOR_BOTH, ANCHOR_START of the switch, and by the
\* extraction itself when a DFA found the exact match location.
EngineAnchor(skipped_test, re_anchor) ==
    IF skipped_test /\ re_anchor = "UNANCHORED" THEN "kUnanchored" ELSE "kAnchored"

\* A choice of OnePass that does not look at the anchor.
ChooseEngineAnyAnchor(can_one_pass, anchor, can_bit_state, size1, bit_state_text_max) ==
    IF can_one_pass THEN "OnePass"
    ELSE IF can_bit_state /\ size1 <= bit_state_text_max THEN "BitState"
    ELSE "NFA"

\* The engine that extracts the captures.
ChooseEngine(can_one_pass, anchor, can_bit_state, size1, bit_state_text_max) ==
    IF can_one_pass /\ anchor # "kUnanchored" THEN "OnePass"
    ELSE IF can_bit_state /\ size1 <= bit_state_text_max THEN "BitState"
    ELSE "NFA"

\* What a call records besides its result: whether ReverseProg() was
\* called, the anchor after promotion, what the DFAs did, the engine that
\* extracted the captures, and the number of LOG(ERROR) lines about
\* inconsistent engines.
NoInfo ==
    [usedReverse |-> FALSE, anchor |-> "none", kind |-> "none", fwd |-> "none",
     rev |-> "none", engine |-> "none", skipped_test |-> FALSE, errlog |-> 0,
     eanchor |-> "none", searched |-> NullPiece]

\* DispatchUnanchored without the reverse DFA: the match is taken to begin
\* where the search began.
DispatchUnanchoredNoReverse(prog, text, sb, kind, nsubmatch, ch, rp, info) ==
    LET go(skipped, match, i) ==
            [returned |-> FALSE, ret |-> FALSE, skipped_test |-> skipped,
             match |-> match, info |-> i]
        stop(ret, i) ==
            [returned |-> TRUE, ret |-> ret, skipped_test |-> FALSE,
             match |-> NullPiece, info |-> i]
        AfterForward(f) ==
            IF ~f.ok
            THEN IF f.failed THEN go(TRUE, NullPiece, [info EXCEPT !.fwd = "failed"])
                 ELSE stop(FALSE, [info EXCEPT !.fwd = "nomatch"])
            ELSE IF nsubmatch = 0 THEN stop(TRUE, [info EXCEPT !.fwd = "match"])
            ELSE go(FALSE, f.match, [info EXCEPT !.fwd = "match"])
    IN AfterForward(SearchDFA(prog, sb, Len(text), text, "kUnanchored", kind,
                              ch.fwdFail))

\* case UNANCHORED of the switch: [returned, ret, skipped_test, match, info].
DispatchUnanchored(prog, text, sb, kind, nsubmatch, ch, rp, info) ==
    LET go(skipped, match, i) ==
            [returned |-> FALSE, ret |-> FALSE, skipped_test |-> skipped,
             match |-> match, info |-> i]
        stop(ret, i) ==
            [returned |-> TRUE, ret |-> ret, skipped_test |-> FALSE,
             match |-> NullPiece, info |-> i]
        AfterReverse(r, i2) ==
            IF ~r.ok
            THEN IF r.failed THEN go(TRUE, NullPiece, [i2 EXCEPT !.rev = "failed"])
                 ELSE stop(FALSE, [i2 EXCEPT !.rev = "nomatch", !.errlog = 1])
            ELSE go(FALSE, r.match, [i2 EXCEPT !.rev = "match"])
        AfterForward(f) ==
            IF ~f.ok
            THEN IF f.failed THEN go(TRUE, NullPiece, [info EXCEPT !.fwd = "failed"])
                 ELSE stop(FALSE, [info EXCEPT !.fwd = "nomatch"])
            ELSE IF nsubmatch = 0 THEN stop(TRUE, [info EXCEPT !.fwd = "match"])
            ELSE IF rp = "NULL"
            THEN stop(FALSE, [info EXCEPT !.fwd = "match", !.usedReverse = TRUE])
            ELSE AfterReverse(
                     SearchReverseDFA(prog, f.match.b, f.match.e, text, ch.revFail),
                     [info EXCEPT !.fwd = "match", !.usedReverse = TRUE])
    IN AfterForward(SearchDFA(prog, sb, Len(text), text, "kUnanchored", kind,
                              ch.fwdFail))

\* case ANCHOR_BOTH, ANCHOR_START of the switch.
DispatchAnchored(prog, text, sb, kind, ncap, can_one_pass, can_bit_state, bit_state_text_max, ch, info) ==
    LET go(skipped, match, i) ==
            [returned |-> FALSE, ret |-> FALSE, skipped_test |-> skipped,
             match |-> match, info |-> i]
        AfterForward(f) ==
            IF ~f.ok
            THEN IF f.failed THEN go(TRUE, NullPiece, [info EXCEPT !.fwd = "failed"])
                 ELSE [returned |-> TRUE, ret |-> FALSE, skipped_test |-> FALSE,
                       match |-> NullPiece, info |-> [info EXCEPT !.fwd = "nomatch"]]
            ELSE go(FALSE, f.match, [info EXCEPT !.fwd = "match"])
    IN IF SkipDfaForOnePass(can_one_pass, Len(text), ncap)
       THEN go(TRUE, NullPiece, [info EXCEPT !.fwd = "skipped for OnePass"])
       ELSE IF SkipDfaForBitState(can_bit_state, Len(text), bit_state_text_max, ncap)
       THEN go(TRUE, NullPiece, [info EXCEPT !.fwd = "skipped for BitState"])
       ELSE AfterForward(SearchDFA(prog, sb, Len(text), text, "kAnchored", kind,
                                   ch.fwdFail))

\* submatch with the n pieces of sub stored in submatch[0 .. n).
Store(submatch, sub, n) ==
    [i \in DOMAIN submatch |-> IF i < n THEN sub[i] ELSE submatch[i]]

\* "Adjust overall match for required prefix that we stripped off."
AdjustPrefix(submatch, prefixlen, nsubmatch) ==
    IF prefixlen > 0 /\ nsubmatch > 0
    THEN [submatch EXCEPT ![0] = Piece(submatch[0].b - prefixlen, submatch[0].e)]
    ELSE submatch

\* "Zero submatches that don't exist in the regexp."
ZeroRest(submatch, ncap, nsubmatch) ==
    [i \in DOMAIN submatch |->
        IF i >= ncap /\ i < nsubmatch THEN NullPiece ELSE submatch[i]]

\* The caller's capture buffer before the call: it has room for nsubmatch
\* pieces at least, and nothing is written to it yet.
FreshBuffer == [i \in 0..(MaxNsub - 1) |-> Unwritten]

\* RE2::Match from "StringPiece subtext = text" on.
MatchBody(o, text, startpos, re_anchor, nsubmatch, ch, rp) ==
    LET prog == o.prog_
        submatch0 == FreshBuffer
        ncap == Min(1 + NumberOfCapturingGroups(o), nsubmatch)
        prefixlen == Len(o.prefix_)
        sb == startpos + prefixlen
        anchor == PrefixAnchor(o, PromoteAnchor(prog, re_anchor))
        kind0 == IF o.longest_match THEN "kLongestMatch" ELSE "kFirstMatch"
        kind == IF anchor = "ANCHOR_BOTH" THEN "kFullMatch" ELSE kind0
        can_one_pass == o.is_one_pass_ /\ ncap <= kMaxOnePassCapture
        can_bit_state == prog.size <= MaxBitStateProg
        bit_state_text_max == MaxBitStateVector \div prog.size
        found(sub, i) ==
            [ret |-> TRUE,
             submatch |-> ZeroRest(AdjustPrefix(sub, prefixlen, nsubmatch), ncap,
                                   nsubmatch),
             info |-> i]
        none(i) == [ret |-> FALSE, submatch |-> submatch0, info |-> i]
        \* capture extraction by the engine chosen, on subtext1 = [s1.b, s1.e)
        AfterEngine(e, engine, skipped, info) ==
            IF ~e.ok
            THEN none([info EXCEPT !.engine = engine, !.skipped_test = skipped,
                                   !.errlog = IF skipped THEN 0 ELSE 1])
            ELSE found(Store(submatch0, e.sub, ncap),
                       [info EXCEPT !.engine = engine, !.skipped_test = skipped])
        Captures(engine, s1, anchor1, kind1, skipped, info) ==
            AfterEngine(SearchCaptures(engine, prog, s1.b, s1.e, text, anchor1, kind1,
                                       ncap, ch.engineNone),
                        engine, skipped,
                        [info EXCEPT !.eanchor = anchor1, !.searched = s1])
        Extract1(s1, anchor1, kind1, skipped, info) ==
            Captures(ChooseEngine(can_one_pass, anchor1, can_bit_state,
                                  PieceSize(s1), bit_state_text_max),
                     s1, anchor1, kind1, skipped, info)
        AfterDfa(d) ==
            IF d.returned
            THEN IF d.ret THEN [ret |-> TRUE, submatch |-> submatch0, info |-> d.info]
                 ELSE none(d.info)
            ELSE IF ~d.skipped_test /\ ncap <= 1
            THEN found(IF ncap = 1 THEN [submatch0 EXCEPT ![0] = d.match]
                       ELSE submatch0,
                       d.info)
            ELSE Extract1(IF d.skipped_test THEN Piece(sb, Len(text)) ELSE d.match,
                          EngineAnchor(d.skipped_test, anchor),
                          IF d.skipped_test THEN kind ELSE "kFullMatch",
                          d.skipped_test, d.info)
    IN IF PrefixFails(o, text, startpos) THEN none(NoInfo)
       ELSE AfterDfa(
              IF anchor = "UNANCHORED"
              THEN DispatchUnanchored(prog, text, sb, kind, nsubmatch, ch, rp,
                                      [NoInfo EXCEPT !.anchor = anchor, !.kind = kind])
              ELSE DispatchAnchored(prog, text, sb, kind, ncap, can_one_pass,
                                    can_bit_state, bit_state_text_max, ch,
                                    [NoInfo EXCEPT !.anchor = anchor, !.kind = kind]))

\* RE2::Match: the result of a call on object o that finds ReverseProg()
\* returning rp.
Match(o, text, startpos, re_anchor, nsubmatch, ch, rp) ==
    IF ~ok(o) \/ o.suffix_regexp_.null
    THEN [ret |-> FALSE, submatch |-> FreshBuffer, info |-> NoInfo]
    ELSE MatchBody(o, text, startpos, re_anchor, nsubmatch, ch, rp)

\* A whole call of RE2::Match by a single caller, the lazy ReverseProg()
\* included: the result and the object the call leaves.  ch.rfits: whether
\* the reverse program fits its budget, should this call compile it.  rp is
\* what ReverseProg() does if the call makes it.
MatchCall(o, text, startpos, re_anchor, nsubmatch, ch) ==
    LET Outcome(r, rp) ==
            IF r.info.usedReverse
            THEN [res |-> r, compiled |-> rp.compiled, o |-> rp.o]
            ELSE [res |-> r, compiled |-> FALSE, o |-> o]
        With(rp) ==
            Outcome(Match(o, text, startpos, re_anchor, nsubmatch, ch, rp.prog), rp)
    IN With(ReverseProg(o, ch.rfits))

\* ----------------------------------------------- the engines Match runs
\* What Match does from the computation of ncap on, as a function of the
\* sizes alone: tsize is text.size(), subsize is subtext.size() when the
\* switch is reached, re_anchor the anchor after promotion, and e what the
\* engines answer: e.fwd and e.rev are "match", "nomatch" or "failed",
\* e.msize is the size of the match the DFAs locate, e.rnull says that
\* ReverseProg() returns NULL, e.engine_ok is the answer of the engine that
\* extracts the captures.
NoPlan ==
    [fwd |-> "none", rev |-> "none", usedReverse |-> FALSE, kind |-> "none",
     engine |-> "none", eanchor |-> "none", esize |-> -1, ret |-> FALSE]

MatchPlan(is_one_pass, longest_match, size, tsize, subsize, re_anchor, nsubmatch, ngroups, e) ==
    LET ncap == Min(1 + ngroups, nsubmatch)
        kind0 == IF longest_match THEN "kLongestMatch" ELSE "kFirstMatch"
        kind == IF re_anchor = "ANCHOR_BOTH" THEN "kFullMatch" ELSE kind0
        can_one_pass == is_one_pass /\ ncap <= kMaxOnePassCapture
        can_bit_state == size <= MaxBitStateProg
        bit_state_text_max == MaxBitStateVector \div size
        start == [NoPlan EXCEPT !.kind = kind]
        Engine(anchor1, size1, p) ==
            [p EXCEPT !.engine = ChooseEngine(can_one_pass, anchor1, can_bit_state,
                                              size1, bit_state_text_max),
                      !.eanchor = anchor1, !.esize = size1, !.ret = e.engine_ok]
        Captures(skipped_test, p) ==
            IF ~skipped_test /\ ncap <= 1 THEN [p EXCEPT !.ret = TRUE]
            ELSE Engine(EngineAnchor(skipped_test, re_anchor),
                        IF skipped_test THEN subsize ELSE e.msize, p)
        Forward(p) ==
            IF e.fwd = "failed" THEN Captures(TRUE, [p EXCEPT !.fwd = "failed"])
            ELSE IF e.fwd = "nomatch" THEN [p EXCEPT !.fwd = "nomatch"]
            ELSE [p EXCEPT !.fwd = "match"]
        Reverse(p) ==
            IF e.rnull THEN p
            ELSE IF e.rev = "failed" THEN Captures(TRUE, [p EXCEPT !.rev = "failed"])
            ELSE IF e.rev = "nomatch" THEN [p EXCEPT !.rev = "nomatch"]
            ELSE Captures(FALSE, [p EXCEPT !.rev = "match"])
        Unanchored(f) ==
            IF f.fwd # "match" THEN f
            ELSE IF nsubmatch = 0 THEN [f EXCEPT !.ret = TRUE]
            ELSE Reverse([f EXCEPT !.usedReverse = TRUE])
        Anchored(f) ==
            IF f.fwd # "match" THEN f ELSE Captures(FALSE, f)
    IN IF re_anchor = "UNANCHORED" THEN Unanchored(Forward(start))
       ELSE IF SkipDfaForOnePass(can_one_pass, tsize, ncap)
       THEN Captures(TRUE, [start EXCEPT !.fwd = "skipped for OnePass"])
       ELSE IF SkipDfaForBitState(can_bit_state, tsize, bit_state_text_max, ncap)
       THEN Captures(TRUE, [start EXCEPT !.fwd = "skipped for BitState"])
       ELSE Anchored(Forward(start))

\* ------------------------------------------------------------- rewriting
\* A rewrite string is a sequence of bytes: a backslash, digits and other
\* bytes.

Digits == {"0", "1", "2", "9"}

isdigit(c) == c \in Digits

\* A conversion that takes every digit for 0.
DigitValZero(c) == 0

\* c - '0'
DigitVal(c) == CASE c = "0" -> 0 [] c = "1" -> 1 [] c = "2" -> 2 [] c = "9" -> 9

\* A loop that keeps the last \d it meets, not the largest.
RECURSIVE MaxSubmatchFromLast(_, _, _)
MaxSubmatchFromLast(rewrite, s, max) ==
    IF s > Len(rewrite) THEN max
    ELSE IF rewrite[s] # "\\" THEN MaxSubmatchFromLast(rewrite, s + 1, max)
    ELSE IF s + 1 <= Len(rewrite) /\ isdigit(rewrite[s + 1])
    THEN MaxSubmatchFromLast(rewrite, s + 2, DigitVal(rewrite[s + 1]))
    ELSE MaxSubmatchFromLast(rewrite, s + 2, max)

\* The loop of MaxSubmatch from rewrite[s] on (s counts from 1).
RECURSIVE MaxSubmatchFrom(_, _, _)
MaxSubmatchFrom(rewrite, s, max) ==
    IF s > Len(rewrite) THEN max
    ELSE IF rewrite[s] # "\\" THEN MaxSubmatchFrom(rewrite, s + 1, max)
    ELSE IF s + 1 <= Len(rewrite) /\ isdigit(rewrite[s + 1])
            /\ DigitVal(rewrite[s + 1]) > max
    THEN MaxSubmatchFrom(rewrite, s + 2, DigitVal(rewrite[s + 1]))
    ELSE MaxSubmatchFrom(rewrite, s + 2, max)

\* MaxSubmatch: the largest \d in the rewrite string.
MaxSubmatch(rewrite) == MaxSubmatchFrom(rewrite, 1, 0)

\* The bytes of a piece of text; nothing for a piece of size 0.
Snip(text, piece) ==
    IF PieceSize(piece) > 0 THEN Bytes(text, piece.b, piece.e) ELSE <<>>

\* The loop of RE2::Rewrite from rewrite[s] on: [ok, out].  On an error the
\* bytes appended so far stay in out.
RECURSIVE RewriteFrom(_, _, _, _, _, _)
RewriteFrom(out, rewrite, s, text, vec, veclen) ==
    IF s > Len(rewrite) THEN [ok |-> TRUE, out |-> out]
    ELSE IF rewrite[s] # "\\"
    THEN RewriteFrom(Append(out, rewrite[s]), rewrite, s + 1, text, vec, veclen)
    ELSE IF s + 1 > Len(rewrite) THEN [ok |-> FALSE, out |-> out]
    ELSE IF isdigit(rewrite[s + 1])
    THEN IF DigitVal(rewrite[s + 1]) >= veclen THEN [ok |-> FALSE, out |-> out]
         ELSE RewriteFrom(out \o Snip(text, vec[DigitVal(rewrite[s + 1])]),
                          rewrite, s + 2, text, vec, veclen)
    ELSE IF rewrite[s + 1] = "\\"
    THEN RewriteFrom(Append(out, "\\"), rewrite, s + 2, text, vec, veclen)
    ELSE [ok |-> FALSE, out |-> out]

\* RE2::Rewrite(out, rewrite, vec, veclen), the pieces of vec lying in text.
Rewrite(out, rewrite, text, vec, veclen) ==
    RewriteFrom(out, rewrite, 1, text, vec, veclen)

\* A test of max_token that lets every capture reference pass.
TokenNeverTooLarge(max_token, o) == FALSE

\* max_token > NumberOfCapturingGroups()
TokenTooLarge(max_token, o) == max_token > NumberOfCapturingGroups(o)

\* The loop of RE2::CheckRewriteString from rewrite[s] on: [ok, error,
\* max_token].
RECURSIVE CheckRewriteFrom(_, _, _)
CheckRewriteFrom(rewrite, s, max_token) ==
    IF s > Len(rewrite) THEN [ok |-> TRUE, error |-> "", max_token |-> max_token]
    ELSE IF rewrite[s] # "\\" THEN CheckRewriteFrom(rewrite, s + 1, max_token)
    ELSE IF s + 1 > Len(rewrite)
    THEN [ok |-> FALSE, error |-> "Rewrite schema error: '\\' not allowed at end.",
          max_token |-> max_token]
    ELSE IF rewrite[s + 1] = "\\" THEN CheckRewriteFrom(rewrite, s + 2, max_token)
    ELSE IF ~isdigit(rewrite[s + 1])
    THEN [ok |-> FALSE,
          error |-> "Rewrite schema error: '\\' must be followed by a digit or '\\'.",
          max_token |-> max_token]
    ELSE IF max_token < DigitVal(rewrite[s + 1])
    THEN CheckRewriteFrom(rewrite, s + 2, DigitVal(rewrite[s + 1]))
    ELSE CheckRewriteFrom(rewrite, s + 2, max_token)

\* RE2::CheckRewriteString(rewrite, error): [ok, error].
CheckRewriteString(o, rewrite) ==
    LET Checked(r) ==
          IF ~r.ok THEN [ok |-> FALSE, error |-> r.error]
          ELSE IF TokenTooLarge(r.max_token, o)
          THEN [ok |-> FALSE,
                error |-> "Rewrite schema requests more matches than the regexp has parenthesized subexpressions."]
          ELSE [ok |-> TRUE, error |-> ""]
    IN Checked(CheckRewriteFrom(rewrite, 1, -1))

\* ------------------------------------------------------------- QuoteMeta
\* Here a byte is its value, 0..255.

\* An escaping test that leaves out the test of the high bit.
NeedsEscapeIgnoringHighBit(c) ==
    /\ (c < 97 \/ c > 122) /\ (c < 65 \/ c > 90) /\ (c < 48 \/ c > 57)
    /\ c # 95

\* The test of RE2::QuoteMeta: not in [a-z], [A-Z], [0-9], not '_', and the
\* bit 128 not set.
NeedsEscape(c) ==
    /\ (c < 97 \/ c > 122) /\ (c < 65 \/ c > 90) /\ (c < 48 \/ c > 57)
    /\ c # 95
    /\ (c \div 128) % 2 = 0

\* "\\x00"
EscapedNul == <<92, 120, 48, 48>>

\* The loop of RE2::QuoteMeta from unquoted[ii] on (ii counts from 1).
RECURSIVE QuoteMetaFrom(_, _, _)
QuoteMetaFrom(unquoted, ii, result) ==
    IF ii > Len(unquoted) THEN result
    ELSE IF NeedsEscape(unquoted[ii])
    THEN IF unquoted[ii] = 0
         THEN QuoteMetaFrom(unquoted, ii + 1, result \o EscapedNul)
         ELSE QuoteMetaFrom(unquoted, ii + 1, result \o <<92, unquoted[ii]>>)
    ELSE QuoteMetaFrom(unquoted, ii + 1, Append(result, unquoted[ii]))

\* RE2::QuoteMeta(unquoted).
QuoteMeta(unquoted) == QuoteMetaFrom(unquoted, 1, <<>>)

\* ------------------------------------------------- the integer parsers
\* The memory a parser is given is a sequence of bytes from str on, ending
\* before a NUL; the input is its first n bytes.  The widths of the types
\* are scaled down, keeping short < int < long: long has LongBits bits.

LongBits == 6

IntBits == 5

ShortBits == 4

RECURSIVE Pow2(_)
Pow2(k) == IF k = 0 THEN 1 ELSE 2 * Pow2(k - 1)

LongMax == Pow2(LongBits - 1) - 1

LongMin == -Pow2(LongBits - 1)

ULongMax == Pow2(LongBits) - 1

\* (T)r for a signed and for an unsigned type T of the given width.
CastSigned(r, bits) == ((r + Pow2(bits - 1)) % Pow2(bits)) - Pow2(bits - 1)

CastUnsigned(r, bits) == r % Pow2(bits)

Nul == "NUL"

\* str[i], i counting from 0.
At(str, i) == IF i < Len(str) THEN str[i + 1] ELSE Nul

isspace(c) == c = " "

\* The value of a byte as a digit; 36 for a byte that is no digit.
DigitOf(c) ==
    CASE c = "0" -> 0 [] c = "1" -> 1 [] c = "2" -> 2 [] c = "3" -> 3
      [] c = "4" -> 4 [] c = "5" -> 5 [] c = "6" -> 6 [] c = "7" -> 7
      [] c = "8" -> 8 [] c = "9" -> 9
      [] c \in {"a", "A"} -> 10 [] c \in {"b", "B"} -> 11
      [] c \in {"c", "C"} -> 12 [] c \in {"d", "D"} -> 13
      [] c \in {"e", "E"} -> 14 [] c \in {"f", "F"} -> 15
      [] OTHER -> 36

\* The digits of strtol and strtoul from str[i] on: where they end and
\* their value, which stays at cap once it reaches it.
RECURSIVE ScanDigits(_, _, _, _, _)
ScanDigits(str, i, radix, acc, cap) ==
    IF DigitOf(At(str, i)) < radix
    THEN ScanDigits(str, i + 1, radix, Min(acc * radix + DigitOf(At(str, i)), cap), cap)
    ELSE [end |-> i, mag |-> acc]

RECURSIVE SkipSpace(_, _)
SkipSpace(str, i) == IF isspace(At(str, i)) THEN SkipSpace(str, i + 1) ELSE i

\* The subject sequence of strtol and strtoul: white space, a sign, 0x for
\* radix 16 when a hex digit follows, and digits.  end is 0 and the value 0
\* when there are no digits.
ScanNumber(str, radix, cap) ==
    LET sp == SkipSpace(str, 0)
        neg == At(str, sp) = "-"
        sg == IF At(str, sp) \in {"-", "+"} THEN sp + 1 ELSE sp
        px == IF radix = 16 /\ At(str, sg) = "0" /\ At(str, sg + 1) \in {"x", "X"}
                 /\ DigitOf(At(str, sg + 2)) < 16
              THEN sg + 2 ELSE sg
        Scanned(d) ==
            IF d.end = px THEN [end |-> 0, mag |-> 0, neg |-> FALSE]
            ELSE [end |-> d.end, mag |-> d.mag, neg |-> neg]
    IN Scanned(ScanDigits(str, px, radix, 0, cap))

\* strtol(str, &end, radix): a value out of range gives LONG_MAX or
\* LONG_MIN and sets errno to ERANGE.
strtol(str, radix) ==
    LET Result(p) ==
          IF p.neg /\ p.mag > -LongMin
          THEN [r |-> LongMin, end |-> p.end, erange |-> TRUE]
          ELSE IF ~p.neg /\ p.mag > LongMax
          THEN [r |-> LongMax, end |-> p.end, erange |-> TRUE]
          ELSE [r |-> IF p.neg THEN -p.mag ELSE p.mag, end |-> p.end, erange |-> FALSE]
    IN Result(ScanNumber(str, radix, ULongMax + 1))

\* strtoul(str, &end, radix): a value out of range gives ULONG_MAX and sets
\* errno to ERANGE; a minus sign negates in the unsigned type.
strtoul(str, radix) ==
    LET Result(p) ==
          IF p.mag > ULongMax
          THEN [r |-> ULongMax, end |-> p.end, erange |-> TRUE]
          ELSE [r |-> IF p.neg THEN CastUnsigned(-p.mag, LongBits) ELSE p.mag,
                end |-> p.end, erange |-> FALSE]
    IN Result(ScanNumber(str, radix, ULongMax + 1))

kMaxNumberLength == 32

\* TerminateNumber(buf, str, n): "" for an input that begins with white
\* space, or that is too long and is followed by a byte that may be a
\* digit; a copy of the input, terminated, when such a byte follows; else
\* str itself, with what follows the input.
TerminateNumber(str, n) ==
    IF n > 0 /\ isspace(At(str, 0)) THEN <<>>
    ELSE IF DigitOf(At(str, n)) < 16
    THEN IF n > kMaxNumberLength THEN <<>> ELSE SubSeq(str, 1, n)
    ELSE str

\* What a destination holds that no parser stored into.
Untouched == -9999

Parsed(r) == [ok |-> TRUE, dest |-> r]

NotParsed == [ok |-> FALSE, dest |-> Untouched]

\* parse_long_radix without its test of errno.
parse_long_radix_noerrno(str, n, radix) ==
    LET After(r) ==
          IF r.end # n THEN NotParsed
          ELSE Parsed(r.r)
    IN IF n = 0 THEN NotParsed
       ELSE After(strtol(TerminateNumber(str, n), radix))

\* RE2::Arg::parse_long_radix(str, n, dest, radix): [ok, dest].
parse_long_radix(str, n, radix) ==
    LET After(r) ==
          IF r.end # n THEN NotParsed
          ELSE IF r.erange THEN NotParsed
          ELSE Parsed(r.r)
    IN IF n = 0 THEN NotParsed
       ELSE After(strtol(TerminateNumber(str, n), radix))

\* RE2::Arg::parse_ulong_radix(str, n, dest, radix).
parse_ulong_radix(str, n, radix) ==
    LET After(r) ==
          IF r.end # n THEN NotParsed
          ELSE IF r.erange THEN NotParsed
          ELSE Parsed(r.r)
        Terminated(t) ==
          IF At(t, 0) = "-" THEN NotParsed ELSE After(strtoul(t, radix))
    IN IF n = 0 THEN NotParsed
       ELSE Terminated(TerminateNumber(str, n))

\* The narrowing parsers: parse as long or unsigned long, then compare the
\* value with its cast.
NarrowSigned(p, bits) ==
    IF ~p.ok THEN NotParsed
    ELSE IF CastSigned(p.dest, bits) # p.dest THEN NotParsed
    ELSE Parsed(CastSigned(p.dest, bits))

NarrowUnsigned(p, bits) ==
    IF ~p.ok THEN NotParsed
    ELSE IF CastUnsigned(p.dest, bits) # p.dest THEN NotParsed
    ELSE Parsed(CastUnsigned(p.dest, bits))

parse_short_radix(str, n, radix) == NarrowSigned(parse_long_radix(str, n, radix), ShortBits)

parse_ushort_radix(str, n, radix) == NarrowUnsigned(parse_ulong_radix(str, n, radix), ShortBits)

parse_int_radix(str, n, radix) == NarrowSigned(parse_long_radix(str, n, radix), IntBits)

parse_uint_radix(str, n, radix) == NarrowUnsigned(parse_ulong_radix(str, n, radix), IntBits)

\* parse_<type> (radix 10) and parse_<type>_hex (radix 16).
ParseInteger(type, str, n, radix) ==
    CASE type = "short" -> parse_short_radix(str, n, radix)
      [] type = "ushort" -> parse_ushort_radix(str, n, radix)
      [] type = "int" -> parse_int_radix(str, n, radix)
      [] type = "uint" -> parse_uint_radix(str, n, radix)
      [] type = "long" -> parse_long_radix(str, n, radix)
      [] type = "ulong" -> parse_ulong_radix(str, n, radix)

\* ---------------------------------------------------- PossibleMatchRange
\* The value of a byte of a pattern; "0xFF" names the byte 255, a literal
\* of a Latin-1 pattern.
Ord(c) ==
    CASE c = "a" -> 97 [] c = "b" -> 98 [] c = "A" -> 65 [] c = "0xFF" -> 255

\* pmin[i] += 'A' - 'a' for a lowercase letter.
ToUpperAscii(c) == IF 97 <= c /\ c <= 122 THEN c + 65 - 97 ELSE c

\* PrefixSuccessor (util): the bytes 255 at the end are dropped and the
\* byte before them is incremented; the empty string when nothing is left.
RECURSIVE PrefixSuccessor(_)
PrefixSuccessor(p) ==
    IF p = <<>> THEN <<>>
    ELSE IF p[Len(p)] = 255 THEN PrefixSuccessor(SubSeq(p, 1, Len(p) - 1))
    ELSE [p EXCEPT ![Len(p)] = @ + 1]

\* prefix_.substr(0, n), as byte values.
PrefixBytes(o, n) == [i \in 1..n |-> Ord(o.prefix_[i])]

\* RE2::PossibleMatchRange(min, max, maxlen): [ret, min, max].  min0 and
\* max0 are what the caller's strings hold; dfa is what
\* prog_->PossibleMatchRange answers when it is asked: [ok, min, max].
PossibleMatchRange(o, min0, max0, maxlen, dfa) ==
    LET n == Min(Len(o.prefix_), maxlen)
        pmax == PrefixBytes(o, n)
        pmin == IF o.prefix_foldcase_ THEN [i \in 1..n |-> ToUpperAscii(pmax[i])] ELSE pmax
    IN IF o.prog_.null THEN [ret |-> FALSE, min |-> min0, max |-> max0]
       ELSE IF maxlen - n > 0 /\ dfa.ok
       THEN [ret |-> TRUE, min |-> pmin \o dfa.min, max |-> pmax \o dfa.max]
       ELSE IF Len(pmax) > 0
       THEN [ret |-> TRUE, min |-> pmin, max |-> PrefixSuccessor(pmax)]
       ELSE [ret |-> FALSE, min |-> <<>>, max |-> <<>>]

\* ------------------------------------------------- the memory budgets
\* options_.max_mem() is a signed integer; its width is scaled down to
\* MemBits bits.

MemBits == 8

MemMax == Pow2(MemBits - 1) - 1

MemMin == -Pow2(MemBits - 1)

\* a / b of C for b > 0: the quotient truncated toward zero.
TruncDiv(a, b) == IF a >= 0 THEN a \div b ELSE -((-a) \div b)

\* What max_mem * 2 can give: the product; when it does not fit the type
\* the behaviour is undefined, and a build gives the product wrapped
\* around or, computing in a wider register, the product itself.
TimesTwo(max_mem) ==
    IF 2 * max_mem \in MemMin..MemMax THEN {2 * max_mem}
    ELSE {CastSigned(2 * max_mem, MemBits), 2 * max_mem}

\* options_.max_mem()*2/3, the budget RE2::Init gives CompileToProg.
ForwardBudgets(max_mem) == { TruncDiv(p, 3) : p \in TimesTwo(max_mem) }

\* options_.max_mem()/3, the budget RE2::ReverseProg gives
\* CompileToReverseProg.
ReverseBudget(max_mem) == TruncDiv(max_mem, 3)

\* ------------------------------------------------------------ the facade
\* Every call of Match a facade operation makes meets its own engines:
\* the results of the call for every resolution of ch, the engines agreeing
\* with one another.
Choices == [fwdFail : BOOLEAN, revFail : BOOLEAN, rfits : BOOLEAN, engineNone : {FALSE}]

MatchOutcomes(o, text, startpos, re_anchor, nsubmatch) ==
    { MatchCall(o, text, startpos, re_anchor, nsubmatch, ch) : ch \in Choices }

\* Arg::Parse on a piece of text: a string destination takes any bytes, an
\* integer destination takes digits only, and the texts hold none.
ArgParse(kind, text, piece) == kind = "string"

\* "consumed" of a call that did not set it.
Unset == -1

\* DoMatch that does not compare n with the number of capturing groups.
DoMatchAfterNoCount(o, text, consumed, args, c) ==
    LET n == Len(args)
        vec == c.res.submatch
        result(ret) ==
            [ret |-> ret, consumed |-> IF consumed THEN vec[0].e ELSE Unset,
             o |-> c.o]
    IN IF ~c.res.ret THEN [ret |-> FALSE, consumed |-> Unset, o |-> c.o]
       ELSE IF n = 0 THEN result(TRUE)
       ELSE result(\A i \in 1..n : ArgParse(args[i], text, vec[i]))

\* RE2::DoMatch from the call of Match on, c being what Match did:
\* [ret, consumed, o].
DoMatchAfter(o, text, consumed, args, c) ==
    LET n == Len(args)
        vec == c.res.submatch
        result(ret) ==
            [ret |-> ret, consumed |-> IF consumed THEN vec[0].e ELSE Unset,
             o |-> c.o]
    IN IF ~c.res.ret THEN [ret |-> FALSE, consumed |-> Unset, o |-> c.o]
       ELSE IF n = 0 THEN result(TRUE)
       ELSE IF NumberOfCapturingGroups(o) < n THEN result(FALSE)
       ELSE result(\A i \in 1..n : ArgParse(args[i], text, vec[i]))

\* The nvec of DoMatch.
DoMatchNvec(consumed, args) ==
    IF Len(args) = 0 /\ ~consumed THEN 0 ELSE Len(args) + 1

\* RE2::DoMatch(text, anchor, consumed, args, n): every outcome of the call.
\* consumed: whether the caller passes a place for the number of bytes.
DoMatch(o, text, anchor, consumed, args) ==
    IF ~ok(o) THEN { [ret |-> FALSE, consumed |-> Unset, o |-> o] }
    ELSE { DoMatchAfter(o, text, consumed, args, c) :
             c \in MatchOutcomes(o, text, 0, anchor, DoMatchNvec(consumed, args)) }

\* FullMatch searching unanchored.
FullMatchUnanchored(text, o, args) ==
    { [ret |-> d.ret, o |-> d.o] : d \in DoMatch(o, text, "UNANCHORED", FALSE, args) }

\* RE2::FullMatch and RE2::PartialMatch: [ret, o].
FullMatch(text, o, args) ==
    { [ret |-> d.ret, o |-> d.o] : d \in DoMatch(o, text, "ANCHOR_BOTH", FALSE, args) }

PartialMatch(text, o, args) ==
    { [ret |-> d.ret, o |-> d.o] : d \in DoMatch(o, text, "UNANCHORED", FALSE, args) }

\* Consume removing the prefix whenever DoMatch set consumed, whatever it
\* returned.
ConsumeResultAnyway(input, d) ==
    [ret |-> d.ret, o |-> d.o,
     input |-> IF d.consumed # Unset THEN SubSeq(input, d.consumed + 1, Len(input))
               ELSE input]

\* input->remove_prefix(consumed), input being text[from ..].
ConsumeResult(input, d) ==
    [ret |-> d.ret, o |-> d.o,
     input |-> IF d.ret THEN SubSeq(input, d.consumed + 1, Len(input)) ELSE input]

\* RE2::Consume and RE2::FindAndConsume: [ret, input, o].
Consume(input, o, args) ==
    { ConsumeResult(input, d) : d \in DoMatch(o, input, "ANCHOR_START", TRUE, args) }

FindAndConsume(input, o, args) ==
    { ConsumeResult(input, d) : d \in DoMatch(o, input, "UNANCHORED", TRUE, args) }

\* str->replace that puts s in place of the whole string.
StrReplaceAll(str, piece, s) == s

\* str->replace(vec[0].data() - str->data(), vec[0].size(), s)
StrReplace(str, piece, s) ==
    SubSeq(str, 1, piece.b) \o s \o SubSeq(str, piece.e + 1, Len(str))

\* RE2::Replace after the call of Match.
ReplaceAfter(str, rewrite, nvec, c) ==
    LET Done(rw) ==
            IF ~rw.ok THEN [ret |-> FALSE, str |-> str, o |-> c.o]
            ELSE [ret |-> TRUE, str |-> StrReplace(str, c.res.submatch[0], rw.out),
                  o |-> c.o]
    IN IF ~c.res.ret THEN [ret |-> FALSE, str |-> str, o |-> c.o]
       ELSE Done(Rewrite(<<>>, rewrite, str, c.res.submatch, nvec))

\* RE2::Replace(str, re, rewrite): [ret, str, o].
Replace(str, o, rewrite) ==
    IF 1 + MaxSubmatch(rewrite) > kVecSize THEN { [ret |-> FALSE, str |-> str, o |-> o] }
    ELSE { ReplaceAfter(str, rewrite, 1 + MaxSubmatch(rewrite), c) :
             c \in MatchOutcomes(o, str, 0, "UNANCHORED", 1 + MaxSubmatch(rewrite)) }

\* RE2::Extract after the call of Match: out->clear(), then Rewrite.
ExtractAfter(text, rewrite, out, nvec, c) ==
    LET Done(rw) == [ret |-> rw.ok, out |-> rw.out, o |-> c.o]
    IN IF ~c.res.ret THEN [ret |-> FALSE, out |-> out, o |-> c.o]
       ELSE Done(Rewrite(<<>>, rewrite, text, c.res.submatch, nvec))

\* RE2::Extract clearing out before the match instead of after it.
ExtractClearFirst(text, o, rewrite, out) ==
    IF 1 + MaxSubmatch(rewrite) > kVecSize THEN { [ret |-> FALSE, out |-> out, o |-> o] }
    ELSE { ExtractAfter(text, rewrite, <<>>, 1 + MaxSubmatch(rewrite), c) :
             c \in MatchOutcomes(o, text, 0, "UNANCHORED", 1 + MaxSubmatch(rewrite)) }

\* RE2::Extract(text, re, rewrite, out): [ret, out, o].
Extract(text, o, rewrite, out) ==
    IF 1 + MaxSubmatch(rewrite) > kVecSize THEN { [ret |-> FALSE, out |-> out, o |-> o] }
    ELSE { ExtractAfter(text, rewrite, out, 1 + MaxSubmatch(rewrite), c) :
             c \in MatchOutcomes(o, text, 0, "UNANCHORED", 1 + MaxSubmatch(rewrite)) }

\* RE2::GlobalReplace, one iteration of its loop at a time.  The state of a
\* call: str and rewrite as given, nvec, the cursor p (an offset into str),
\* lastend (NoEnd for NULL), out, count; and for the record the number of
\* iterations begun and whether the last one moved the cursor.
NoEnd == -1

GRIdle == [pc |-> "idle"]

GRBegin(str, rewrite, okBefore) ==
    [pc |-> "loop", str |-> str, rewrite |-> rewrite,
     nvec |-> 1 + MaxSubmatch(rewrite), p |-> 0, lastend |-> NoEnd,
     out |-> <<>>, count |-> 0, iters |-> 0, moved |-> TRUE,
     okBefore |-> okBefore]

\* GlobalReplace without the rule about empty matches.
GRSkipsNever(vec0, lastend) == FALSE

\* "Disallow empty match at end of last match: skip ahead."
GRSkips(vec0, lastend) == vec0.b = lastend /\ PieceSize(vec0) = 0

\* The body of the loop, c being what the call of Match did: pc is "exit"
\* after a break.
GRIterate(g, c) ==
    LET vec0 == c.res.submatch[0]
        out1 == IF g.p < vec0.b THEN g.out \o Bytes(g.str, g.p, vec0.b) ELSE g.out
    IN IF ~c.res.ret THEN [g EXCEPT !.pc = "exit"]
       ELSE IF GRSkips(vec0, g.lastend)
       THEN [g EXCEPT !.out = IF g.p < Len(g.str) THEN Append(out1, g.str[g.p + 1])
                              ELSE out1,
                      !.p = g.p + 1]
       ELSE [g EXCEPT !.out = Rewrite(out1, g.rewrite, g.str, c.res.submatch,
                                      g.nvec).out,
                      !.p = vec0.e,
                      !.lastend = vec0.e,
                      !.count = g.count + 1]

\* After the loop: [ret, str].
GRReturn(g) ==
    IF g.count = 0 THEN [ret |-> 0, str |-> g.str]
    ELSE [ret |-> g.count,
          str |-> IF g.p < Len(g.str) THEN g.out \o Bytes(g.str, g.p, Len(g.str))
                  ELSE g.out]

\* ---------------------------------------------------------------- inputs

\* a, ^a, a*, (a)(b)?, ^a(b*), (?i)^ab, a$, ^(a*)$, ^(a)b and a pattern
\* that does not parse.
Regexps ==
    { Rx(FALSE, <<Lit("a")>>, FALSE, FALSE),
      Rx(TRUE, <<Lit("a")>>, FALSE, FALSE),
      Rx(FALSE, <<Star("a")>>, FALSE, FALSE),
      Rx(FALSE, <<Cap(Lit("a")), Cap(Opt("b"))>>, FALSE, FALSE),
      Rx(TRUE, <<Lit("a"), Cap(Star("b"))>>, FALSE, FALSE),
      Rx(TRUE, <<Lit("a"), Lit("b")>>, FALSE, TRUE),
      Rx(FALSE, <<Lit("a")>>, TRUE, FALSE),
      Rx(TRUE, <<Cap(Star("a"))>>, TRUE, FALSE),
      Rx(TRUE, <<Cap(Lit("a")), Lit("b")>>, FALSE, FALSE),
      BadRx }

\* What a construction meets: a forward program that does not fit; or one
\* that fits and is small and one-pass, small and not one-pass, or too
\* large for BitState; or a small one under the longest_match option.
Env(fits, size, onepass, longest) ==
    [fits |-> fits, size |-> size, onepass |-> onepass, longest_match |-> longest]

Envs ==
    { Env(FALSE, 10, FALSE, FALSE), Env(TRUE, 10, TRUE, FALSE),
      Env(TRUE, 10, FALSE, FALSE), Env(TRUE, 501, FALSE, FALSE),
      Env(TRUE, 10, FALSE, TRUE) }

\* The constructions: a pattern that does not parse is never compiled.
Constructions ==
    { c \in [rx : Regexps, env : Envs] : ~c.rx.valid => c.env = Env(TRUE, 10, FALSE, FALSE) }

Anchors == {"UNANCHORED", "ANCHOR_START", "ANCHOR_BOTH"}

Requests ==
    { r \in [text : TextsUpTo(MaxTextLen), startpos : 0..MaxTextLen,
             re_anchor : Anchors, nsubmatch : 0..MaxNsub] :
        r.startpos <= Len(r.text) }

NoCall == [op |-> "none"]

\* The texts of the facade operations: the short ones and "bbb".
FacadeTexts == TextsUpTo(MaxTextLen) \cup { <<"b", "b", "b">> }

\* X, the empty rewrite, \0, \1, X\0, \\ and two malformed ones: a
\* trailing backslash and \X.
Rewrites ==
    { <<"X">>, <<>>, <<"\\", "0">>, <<"\\", "1">>, <<"X", "\\", "0">>,
      <<"\\", "\\">>, <<"\\">>, <<"\\", "X">> }

ArgLists == { <<>>, <<"string">>, <<"string", "string">>, <<"int">> }

\* What the caller's output string of Extract holds before the call.
OldOut == <<"X">>

FacadeConstructions ==
    { c \in Constructions : c.env \in {Env(TRUE, 10, FALSE, FALSE), Env(FALSE, 10, FALSE, FALSE)} }

FacadeInput(op, text, startpos, re_anchor, nsubmatch, args, rewrite) ==
    [op |-> op, text |-> text, startpos |-> startpos, re_anchor |-> re_anchor,
     nsubmatch |-> nsubmatch, args |-> args, rewrite |-> rewrite]

FacadeInputs ==
    { FacadeInput("Match", r.text, r.startpos, r.re_anchor, r.nsubmatch, <<>>, <<>>) :
        r \in Requests }
    \cup { FacadeInput(x[1], x[2], 0, "UNANCHORED", 0, x[3], <<>>) :
             x \in {"FullMatch", "PartialMatch", "Consume", "FindAndConsume"}
                    \X FacadeTexts \X ArgLists }
    \cup { FacadeInput(x[1], x[2], 0, "UNANCHORED", 0, <<>>, x[3]) :
             x \in {"Replace", "GlobalReplace", "Extract"} \X FacadeTexts \X Rewrites }

\* The inputs of a specification that studies no single call.
NoInput == FacadeInput("none", <<>>, 0, "UNANCHORED", 0, <<>>, <<>>)

\* ------------------------------------------------------------------ state

VARIABLES
    obj,    \* the RE2 object
    cons,   \* how it was constructed: [rx, env]
    inp,    \* the inputs of the operation under study
    last,   \* the last call that returned: what it was given and returned
    hist,   \* history: how often the reverse program was compiled
    gr,     \* the call of GlobalReplace in progress
    thr,    \* the concurrent callers: where each one is, and its locals
    mutex_  \* the holder of mutex_, or Free

vars == <<obj, cons, inp, last, hist, gr, thr, mutex_>>

\* The concurrent callers.
Threads == {"t1", "t2"}

Free == "free"

Idle == [pc |-> "idle"]

\* No caller is inside a call.
NoThreads == thr = [t \in Threads |-> Idle] /\ mutex_ = Free

\* hist after a call of Match that compiled the reverse program or not.
Compiled(h, compiled) ==
    [h EXCEPT !.rcompiles = Min(2, @ + IF compiled THEN 1 ELSE 0)]

\* The engines meeting no failure.
NoFailure == [fwdFail |-> FALSE, revFail |-> FALSE, rfits |-> TRUE, engineNone |-> FALSE]

\* ------------------------------------------- Spec: calls of RE2::Match

Init ==
    /\ cons \in Constructions
    /\ obj = REInit(cons.rx, cons.env)
    /\ inp \in Requests
    /\ last = NoCall
    /\ hist = [rcompiles |-> 0]
    /\ gr = GRIdle
    /\ NoThreads

\* re.Match(text, startpos, re_anchor, submatch, nsubmatch).
CallMatch ==
    \E c \in MatchOutcomes(obj, inp.text, inp.startpos, inp.re_anchor, inp.nsubmatch) :
        /\ obj' = c.o
        /\ last' = [op |-> "Match", okBefore |-> ok(obj),
                    ret |-> c.res.ret, submatch |-> c.res.submatch,
                    info |-> c.res.info, compiled |-> c.compiled]
        /\ hist' = Compiled(hist, c.compiled)
        /\ UNCHANGED <<cons, inp, gr, thr, mutex_>>

Next == CallMatch

Spec == Init /\ [][Next]_vars

\* ------------------------------- SpecFacade: calls of the facade operations

InitFacade ==
    /\ cons \in FacadeConstructions
    /\ obj = REInit(cons.rx, cons.env)
    /\ inp \in FacadeInputs
    /\ last = NoCall
    /\ hist = [rcompiles |-> 0]
    /\ gr = GRIdle
    /\ NoThreads

\* Whether a call changed rprog_ or the error: it compiled the reverse
\* program.
Changed(o1, o2) == o1 # o2

CallFacadeMatch == inp.op = "Match" /\ CallMatch

\* RE2::FullMatch(text, re, args) and RE2::PartialMatch(text, re, args).
CallFullMatch ==
    /\ inp.op = "FullMatch"
    /\ \E r \in FullMatch(inp.text, obj, inp.args) :
         /\ obj' = r.o
         /\ last' = [op |-> "FullMatch", okBefore |-> ok(obj), ret |-> r.ret]
         /\ hist' = Compiled(hist, Changed(obj, r.o))
    /\ UNCHANGED <<cons, inp, gr, thr, mutex_>>

CallPartialMatch ==
    /\ inp.op = "PartialMatch"
    /\ \E r \in PartialMatch(inp.text, obj, inp.args) :
         /\ obj' = r.o
         /\ last' = [op |-> "PartialMatch", okBefore |-> ok(obj), ret |-> r.ret]
         /\ hist' = Compiled(hist, Changed(obj, r.o))
    /\ UNCHANGED <<cons, inp, gr, thr, mutex_>>

\* RE2::Consume(input, re, args) and RE2::FindAndConsume(input, re, args).
CallConsume ==
    /\ inp.op = "Consume"
    /\ \E r \in Consume(inp.text, obj, inp.args) :
         /\ obj' = r.o
         /\ last' = [op |-> "Consume", okBefore |-> ok(obj), ret |-> r.ret,
                     input |-> r.input]
         /\ hist' = Compiled(hist, Changed(obj, r.o))
    /\ UNCHANGED <<cons, inp, gr, thr, mutex_>>

CallFindAndConsume ==
    /\ inp.op = "FindAndConsume"
    /\ \E r \in FindAndConsume(inp.text, obj, inp.args) :
         /\ obj' = r.o
         /\ last' = [op |-> "FindAndConsume", okBefore |-> ok(obj), ret |-> r.ret,
                     input |-> r.input]
         /\ hist' = Compiled(hist, Changed(obj, r.o))
    /\ UNCHANGED <<cons, inp, gr, thr, mutex_>>

\* RE2::Replace(str, re, rewrite).
CallReplace ==
    /\ inp.op = "Replace"
    /\ \E r \in Replace(inp.text, obj, inp.rewrite) :
         /\ obj' = r.o
         /\ last' = [op |-> "Replace", okBefore |-> ok(obj), ret |-> r.ret,
                     str |-> r.str]
         /\ hist' = Compiled(hist, Changed(obj, r.o))
    /\ UNCHANGED <<cons, inp, gr, thr, mutex_>>

\* RE2::Extract(text, re, rewrite, out).
CallExtract ==
    /\ inp.op = "Extract"
    /\ \E r \in Extract(inp.text, obj, inp.rewrite, OldOut) :
         /\ obj' = r.o
         /\ last' = [op |-> "Extract", okBefore |-> ok(obj), ret |-> r.ret,
                     out |-> r.out]
         /\ hist' = Compiled(hist, Changed(obj, r.o))
    /\ UNCHANGED <<cons, inp, gr, thr, mutex_>>

\* What a call of GlobalReplace leaves in last when it returns.
GRLast(g, r) ==
    [op |-> "GlobalReplace", okBefore |-> g.okBefore, ret |-> r.ret, str |-> r.str,
     iters |-> g.iters]

\* RE2::GlobalReplace(str, re, rewrite) up to its loop.
CallGlobalReplace ==
    /\ inp.op = "GlobalReplace"
    /\ gr.pc = "idle"
    /\ IF 1 + MaxSubmatch(inp.rewrite) > kVecSize
       THEN /\ last' = [op |-> "GlobalReplace", okBefore |-> ok(obj), ret |-> 0,
                        str |-> inp.text, iters |-> 0]
            /\ gr' = gr
       ELSE /\ gr' = GRBegin(inp.text, inp.rewrite, ok(obj))
            /\ last' = NoCall
    /\ UNCHANGED <<obj, cons, inp, hist, thr, mutex_>>

\* The test of the loop and one iteration; when the loop ends, the rest of
\* GlobalReplace.
GlobalReplaceLoop ==
    /\ gr.pc = "loop"
    /\ IF gr.p > Len(gr.str)
       THEN /\ last' = GRLast(gr, GRReturn(gr))
            /\ gr' = GRIdle
            /\ UNCHANGED <<obj, hist>>
       ELSE \E c \in MatchOutcomes(obj, gr.str, gr.p, "UNANCHORED", gr.nvec) :
              \E g \in { [GRIterate(gr, c) EXCEPT !.iters = gr.iters + 1] } :
                /\ obj' = c.o
                /\ hist' = Compiled(hist, c.compiled)
                /\ IF g.pc = "exit"
                   THEN /\ last' = GRLast(g, GRReturn(g))
                        /\ gr' = GRIdle
                   ELSE /\ gr' = [g EXCEPT !.moved = g.p > gr.p]
                        /\ last' = last
    /\ UNCHANGED <<cons, inp, thr, mutex_>>

NextFacade ==
    \/ CallFacadeMatch
    \/ CallFullMatch
    \/ CallPartialMatch
    \/ CallConsume
    \/ CallFindAndConsume
    \/ CallReplace
    \/ CallExtract
    \/ CallGlobalReplace
    \/ GlobalReplaceLoop

SpecFacade == InitFacade /\ [][NextFacade]_vars

\* ------------------------------ SpecMT: concurrent callers of one pattern
\* Two threads call Match and NamedCapturingGroups on one RE2 object.  A
\* step is what a thread does between two points where the others matter:
\* the unlocked test of ok(), taking mutex_, the test, the compilation and
\* the failure handling of ReverseProg, and its return.  The program or map
\* a thread allocates is named after the thread.

\* MutexLock l(mutex_) on a mutex that keeps nobody out.
MutexNeverHeld(m) == TRUE

\* MutexLock l(mutex_): the caller gets mutex_ when nobody holds it.
MutexFree(m) == m = Free

MTRequests ==
    [text : { <<"a">> }, startpos : {0}, re_anchor : Anchors,
     nsubmatch : {0, 1, MaxNsub}]

MTConstructions ==
    { c \in Constructions :
        /\ c.rx \in { Rx(FALSE, <<Lit("a")>>, FALSE, FALSE), BadRx }
        /\ c.env = Env(TRUE, 10, FALSE, FALSE) }

InitMT ==
    /\ cons \in MTConstructions
    /\ obj = REInit(cons.rx, cons.env)
    /\ inp = NoInput
    /\ last = NoCall
    /\ hist = [rcompiles |-> 0, ngcomputes |-> 0, rprogs |-> {}, maps |-> {}]
    /\ gr = GRIdle
    /\ NoThreads

\* Thread t inside Match at pc: its request, whether the error was set when
\* the call began, what ReverseProg() returned ("none" before it returns)
\* and whether this call's reverse compilation failed.
InMatch(pc, req, after, rp, triggered) ==
    [pc |-> pc, req |-> req, after |-> after, rp |-> rp, triggered |-> triggered]

\* What a call of Match leaves in last: the thread, what the call was
\* doing, what its test of ok() read, and the result.
MTLast(t, call, okAtStart, ret) ==
    [op |-> "Match", t |-> t, req |-> call.req, after |-> call.after,
     okAtStart |-> okAtStart, ret |-> ret, rp |-> call.rp,
     triggered |-> call.triggered]

\* Thread t calls re.Match(text, startpos, re_anchor, submatch, nsubmatch).
BeginMatch(t) ==
    /\ thr[t].pc = "idle"
    /\ \E r \in MTRequests :
         thr' = [thr EXCEPT ![t] = InMatch("m_preflight", r, ~ok(obj), "none", FALSE)]
    /\ UNCHANGED <<obj, cons, inp, last, hist, gr, mutex_>>

\* RE2::Match from its test of ok(), made without mutex_, to its return or
\* to its call of ReverseProg().
MatchPreflight(t) ==
    /\ thr[t].pc = "m_preflight"
    /\ IF ~ok(obj) \/ obj.suffix_regexp_.null
       THEN /\ last' = MTLast(t, thr[t], ok(obj), FALSE)
            /\ thr' = [thr EXCEPT ![t] = Idle]
       ELSE \E fwdFail \in BOOLEAN :
              \E r \in { MatchBody(obj, thr[t].req.text, thr[t].req.startpos,
                                   thr[t].req.re_anchor, thr[t].req.nsubmatch,
                                   [NoFailure EXCEPT !.fwdFail = fwdFail], "rprog") } :
                IF r.info.usedReverse
                THEN /\ thr' = [thr EXCEPT ![t].pc = "rp_lock"]
                     /\ last' = last
                ELSE /\ last' = MTLast(t, thr[t], TRUE, r.ret)
                     /\ thr' = [thr EXCEPT ![t] = Idle]
    /\ UNCHANGED <<obj, cons, inp, hist, gr, mutex_>>

\* RE2::ReverseProg: MutexLock l(mutex_) and the test of rprog_ and error_.
ReverseProgEnter(t) ==
    /\ thr[t].pc = "rp_lock"
    /\ MutexFree(mutex_)
    /\ mutex_' = t
    /\ thr' = [thr EXCEPT ![t] =
                 IF ReverseProgNeeded(obj) THEN [@ EXCEPT !.pc = "rp_compile"]
                 ELSE [@ EXCEPT !.pc = "rp_return", !.rp = obj.rprog_]]
    /\ UNCHANGED <<obj, cons, inp, last, hist, gr>>

\* rprog_ = suffix_regexp_->CompileToReverseProg(max_mem/3).
ReverseProgCompile(t) ==
    /\ thr[t].pc = "rp_compile"
    /\ \E fits \in BOOLEAN :
         /\ obj' = ReverseProgCompiled(obj, fits, t)
         /\ thr' = [thr EXCEPT ![t] =
                      IF fits THEN [@ EXCEPT !.pc = "rp_return", !.rp = t]
                      ELSE [@ EXCEPT !.pc = "rp_fail"]]
    /\ hist' = Compiled(hist, TRUE)
    /\ UNCHANGED <<cons, inp, last, gr, mutex_>>

\* "if (rprog_ == NULL)": error_ and error_code_ are set, NULL is returned.
ReverseProgFail(t) ==
    /\ thr[t].pc = "rp_fail"
    /\ obj' = ReverseProgFailed(obj)
    /\ thr' = [thr EXCEPT ![t] = [@ EXCEPT !.pc = "rp_return", !.rp = "NULL",
                                             !.triggered = TRUE]]
    /\ UNCHANGED <<cons, inp, last, hist, gr, mutex_>>

\* ReverseProg returns, releasing mutex_, and Match goes on to its return.
MatchFinish(t) ==
    /\ thr[t].pc = "rp_return"
    /\ mutex_' = Free
    /\ \E revFail \in BOOLEAN :
         \E r \in { MatchBody(obj, thr[t].req.text, thr[t].req.startpos,
                              thr[t].req.re_anchor, thr[t].req.nsubmatch,
                              [NoFailure EXCEPT !.revFail = revFail], thr[t].rp) } :
           last' = MTLast(t, thr[t], TRUE, r.ret)
    /\ hist' = [hist EXCEPT !.rprogs = @ \cup {thr[t].rp}]
    /\ thr' = [thr EXCEPT ![t] = Idle]
    /\ UNCHANGED <<obj, cons, inp, gr>>

\* Thread t calls re.NamedCapturingGroups().
BeginNamedGroups(t) ==
    /\ thr[t].pc = "idle"
    /\ thr' = [thr EXCEPT ![t] = [pc |-> "ng_lock"]]
    /\ UNCHANGED <<obj, cons, inp, last, hist, gr, mutex_>>

\* RE2::NamedCapturingGroups: MutexLock l(mutex_) and the tests of ok() and
\* named_groups_.
NamedGroupsEnter(t) ==
    /\ thr[t].pc = "ng_lock"
    /\ MutexFree(mutex_)
    /\ mutex_' = t
    /\ thr' = [thr EXCEPT ![t] =
                 IF ~ok(obj) THEN [pc |-> "ng_return", map |-> "empty_map"]
                 ELSE IF obj.named_groups_ = "NULL" THEN [pc |-> "ng_compute"]
                 ELSE [pc |-> "ng_return", map |-> obj.named_groups_]]
    /\ UNCHANGED <<obj, cons, inp, last, hist, gr>>

\* named_groups_ = suffix_regexp_->NamedCaptures(), or &empty_map.
NamedGroupsCompute(t) ==
    /\ thr[t].pc = "ng_compute"
    /\ \E new \in {"NULL", t} :
         /\ obj' = NamedGroupsComputed(obj, new)
         /\ thr' = [thr EXCEPT ![t] =
                      [pc |-> "ng_return",
                       map |-> NamedGroupsComputed(obj, new).named_groups_]]
    /\ hist' = [hist EXCEPT !.ngcomputes = Min(2, @ + 1)]
    /\ UNCHANGED <<cons, inp, last, gr, mutex_>>

\* NamedCapturingGroups returns, releasing mutex_.
NamedGroupsReturn(t) ==
    /\ thr[t].pc = "ng_return"
    /\ mutex_' = Free
    /\ last' = [op |-> "NamedCapturingGroups", t |-> t, map |-> thr[t].map]
    /\ hist' = [hist EXCEPT !.maps = @ \cup {thr[t].map}]
    /\ thr' = [thr EXCEPT ![t] = Idle]
    /\ UNCHANGED <<obj, cons, inp, gr>>

NextMT ==
    \E t \in Threads :
        \/ BeginMatch(t)
        \/ MatchPreflight(t)
        \/ ReverseProgEnter(t)
        \/ ReverseProgCompile(t)
        \/ ReverseProgFail(t)
        \/ MatchFinish(t)
        \/ BeginNamedGroups(t)
        \/ NamedGroupsEnter(t)
        \/ NamedGroupsCompute(t)
        \/ NamedGroupsReturn(t)

SpecMT == InitMT /\ [][NextMT]_vars

\* ======================================================== claims on Spec

\* RequiredPrefix finding no prefix to factor out.
NoRequiredPrefix(rx) ==
    [ok |-> FALSE, prefix |-> <<>>, foldcase |-> FALSE, suffix |-> rx]

\* The pattern of the object, constructed without prefix factoring, and
\* what Match answers on it for the inputs of the call.
Unfactored == REInitWith(cons.rx, cons.env, NoRequiredPrefix(cons.rx))

UnfactoredMatch ==
    Match(Unfactored, inp.text, inp.startpos, inp.re_anchor, inp.nsubmatch,
          NoFailure, "rprog")

\* C6: prefix factoring is transparent.  For every text, startpos and anchor,
\* Match on a pattern whose literal prefix was factored out returns the same
\* boolean and the same whole-match span as the same pattern matched
\* without prefix factoring.
C6_PrefixTransparent ==
    (last.op = "Match" /\ ok(obj) /\ obj.prefix_ # <<>>) =>
        /\ last.ret = UnfactoredMatch.ret
        /\ (last.ret /\ inp.nsubmatch > 0) =>
               last.submatch[0] = UnfactoredMatch.submatch[0]

\* The same, for the calls that start at the beginning of the text only.
C6_TransparentAtStart ==
    (inp.startpos = 0) => C6_PrefixTransparent

\* One search by the NFA over the whole subtext: the call on the same
\* pattern compiled to a program that is neither one-pass nor small enough
\* for BitState, with the forward DFA out of memory.
SingleSearch ==
    Match(REInit(cons.rx, [cons.env EXCEPT !.size = MaxBitStateProg + 1,
                                           !.onepass = FALSE]),
          inp.text, inp.startpos, inp.re_anchor, inp.nsubmatch,
          [NoFailure EXCEPT !.fwdFail = TRUE], "rprog")

\* C7: orchestrator equivalence.  Whatever the forward DFA did (matched, was
\* skipped, ran out of memory), whatever the reverse DFA did (matched, ran
\* out of memory) and whichever of OnePass, BitState and NFA extracted the
\* captures, a call of Match on a valid pattern returns the boolean and the
\* capture vector of the single reference search; so they are the same for
\* every resolution of these choices.
C7_OrchestratorEquivalence ==
    (last.op = "Match" /\ ok(obj)) =>
        /\ last.ret = SingleSearch.ret
        /\ last.submatch = SingleSearch.submatch

\* A call where the choices went the other way: both DFAs ran and matched,
\* and BitState extracted a group from the match they located, away from
\* where the search began.
C7_Witness ==
    /\ last.op = "Match" /\ last.ret /\ inp.nsubmatch >= 2
    /\ last.info.fwd = "match" /\ last.info.rev = "match"
    /\ last.info.engine = "BitState"
    /\ last.submatch[1] # NullPiece
    /\ last.submatch[0].b > inp.startpos

\* The match of the entire regexp in the text from startpos on, by the
\* reference matcher.
WholeMatch ==
    RefSearch(MkProg(cons.rx.atoms, cons.rx.fold, cons.rx.bot, cons.rx.eot, 1),
              inp.startpos, Len(inp.text), inp.text,
              IF inp.re_anchor = "UNANCHORED" THEN "kUnanchored" ELSE "kAnchored",
              IF inp.re_anchor = "ANCHOR_BOTH" THEN "kFullMatch"
              ELSE IF cons.env.longest_match THEN "kLongestMatch"
              ELSE "kFirstMatch")

\* The groups beyond the capture count are null, and a call with
\* nsubmatch = 0 writes nothing.
C8_BeyondCountNull ==
    /\ (last.op = "Match" /\ last.ret) =>
          \A i \in 0..(MaxNsub - 1) :
             /\ (1 + NumberOfCapturingGroups(obj) <= i /\ i < inp.nsubmatch)
                   => last.submatch[i] = NullPiece
             /\ i >= inp.nsubmatch => last.submatch[i] = Unwritten
    /\ (last.op = "Match" /\ inp.nsubmatch = 0) => last.submatch = FreshBuffer

\* C8: whenever Match returns true with nsubmatch > 0, submatch[0] is the
\* whole match and every submatch[i] with 1 + NumberOfCapturingGroups <= i <
\* nsubmatch is the null range; with nsubmatch = 0 the capture buffer is
\* never written.
C8_CaptureLayout ==
    /\ (last.op = "Match" /\ last.ret /\ inp.nsubmatch > 0) =>
          /\ WholeMatch.found
          /\ last.submatch[0] = WholeMatch.span
    /\ C8_BeyondCountNull

\* The same, for calls on patterns without a factored prefix or at the
\* beginning of the text.
C8_LayoutWhereTransparent ==
    (obj.prefix_ = <<>> \/ inp.startpos = 0) => C8_CaptureLayout

\* The state every failed reverse compilation leaves.
ReverseCompileFailed ==
    /\ obj.error_ = "pattern too large - reverse compile failed"
    /\ obj.error_code_ = "ErrorPatternTooLarge"
    /\ obj.rprog_ = "NULL"

\* C3 as stated: in every reachable state the forward program is non-null
\* if and only if the error is ok.
C3_ProgIffOk ==
    ~obj.prog_.null <=> ok(obj)

\* C3, amended: in every reachable state an ok error implies a non-null
\* forward program, and a non-null forward program goes with an error that
\* is not ok only after the lazy reverse compilation has failed.
C3_ProgIffOkUnlessReverseFailed ==
    /\ ok(obj) => ~obj.prog_.null
    /\ (~obj.prog_.null /\ ~ok(obj)) => (ReverseCompileFailed /\ hist.rcompiles = 1)

\* A call of Match has just failed to compile the reverse program: the
\* forward program is still there and the error is not ok.
C3_Witness ==
    /\ last.op = "Match" /\ last.compiled /\ ~last.ret
    /\ ~obj.prog_.null /\ ~ok(obj)

\* =================================================== claims on SpecFacade

\* The text the operation was given: the text of Match, FullMatch and
\* PartialMatch, the input of Consume and FindAndConsume, the string of
\* Replace and GlobalReplace.
GivenText == inp.text

\* C1: for a pattern whose error is not ok every matching or replacement
\* operation short-circuits.  Match, FullMatch, PartialMatch, Consume,
\* FindAndConsume, Replace and Extract return false, GlobalReplace returns
\* 0, and the capture buffer, the input cursor, the string and the output
\* string are as they were before the call.
C1_ErrorShortCircuit ==
    (last.op # "none" /\ ~last.okBefore) =>
        /\ last.ret = (IF last.op = "GlobalReplace" THEN 0 ELSE FALSE)
        /\ last.op = "Match" => last.submatch = FreshBuffer
        /\ last.op \in {"Consume", "FindAndConsume"} => last.input = GivenText
        /\ last.op \in {"Replace", "GlobalReplace"} => last.str = GivenText
        /\ last.op = "Extract" => last.out = OldOut
        /\ ~ok(obj)

\* Extract on a pattern whose reverse compilation failed in an earlier call:
\* the forward program is there, the text has a match, and the call returned
\* false leaving the output string alone.
C1_Witness ==
    /\ last.op = "Extract" /\ ~last.okBefore
    /\ ~obj.prog_.null /\ hist.rcompiles = 1
    /\ cons.rx.atoms = <<Lit("a")>> /\ inp.text = <<"a">>

\* C9: GlobalReplace terminates.  Every step of a running loop begins one
\* more iteration or returns; the cursor never decreases, of two consecutive
\* iterations at least one advances it, and the number of iterations begun
\* is at most 2 * (|text| + 1), also for patterns that match the empty
\* string.
C9_GlobalReplaceTerminates ==
    /\ [](gr.pc = "loop" => (gr.iters <= 2 * (Len(gr.str) + 1) /\ gr.p >= 0))
    /\ [](last.op = "GlobalReplace" => last.iters <= 2 * (Len(inp.text) + 1))
    /\ [][(gr.pc = "loop" /\ gr'.pc = "loop") =>
              /\ gr'.iters = gr.iters + 1
              /\ gr'.p >= gr.p
              /\ gr.moved \/ gr'.p > gr.p]_vars

\* A call that ran 2 * (|text| + 1) iterations, half of them not advancing
\* the cursor: a* on "bbb".
C9_Witness ==
    /\ last.op = "GlobalReplace" /\ Len(inp.text) = 3
    /\ last.iters = 2 * (Len(inp.text) + 1)
    /\ last.ret = 4

\* The capture vector of a reference match, as Match fills it.
RefVec(r, nvec) ==
    [i \in 0..(nvec - 1) |->
        IF i = 0 THEN r.span ELSE IF i <= Len(r.caps) THEN r.caps[i] ELSE NullPiece]

\* Global replacement by the words of C10, with the matches of the entire
\* regexp found by the reference matcher from the cursor p on: [out, count].
RECURSIVE RefReplaceFrom(_, _, _, _, _, _, _)
RefReplaceFrom(prog, kind, str, rewrite, p, lastend, acc) ==
    LET nvec == 1 + MaxSubmatch(rewrite)
        Step(r) ==
            IF ~r.found
            THEN [out |-> acc.out \o Bytes(str, p, Len(str)), count |-> acc.count]
            ELSE IF r.span.b = lastend /\ PieceSize(r.span) = 0
            THEN RefReplaceFrom(prog, kind, str, rewrite, p + 1, lastend,
                                [acc EXCEPT !.out = IF p < Len(str)
                                                    THEN Append(@, str[p + 1]) ELSE @])
            ELSE RefReplaceFrom(prog, kind, str, rewrite, r.span.e, r.span.e,
                                [out |-> RewriteFrom(acc.out \o Bytes(str, p, r.span.b),
                                                     rewrite, 1, str, RefVec(r, nvec),
                                                     nvec).out,
                                 count |-> acc.count + 1])
    IN IF p > Len(str) THEN acc
       ELSE Step(RefSearch(prog, p, Len(str), str, "kUnanchored", kind))

RefGlobalReplace ==
    RefReplaceFrom(MkProg(cons.rx.atoms, cons.rx.fold, cons.rx.bot, cons.rx.eot, 1),
                   IF cons.env.longest_match THEN "kLongestMatch" ELSE "kFirstMatch",
                   inp.text, inp.rewrite, 0, NoEnd, [out |-> <<>>, count |-> 0])

\* The rewrite strings Rewrite accepts.
WellFormed(rewrite) == rewrite \notin { <<"\\">>, <<"\\", "X">> }

\* C10: GlobalReplace returns the number of substitutions and leaves the
\* in-order concatenation of the rewritten matches of the pattern and the
\* unmatched bytes, each copied once; an empty match that begins where the
\* previous substituted match ended is not substituted; with no match it
\* returns 0 and leaves the text unchanged.  Stated for the calls on a
\* pattern that is ok when the call returns, with a well-formed rewrite.
C10_GlobalReplaceResult ==
    (last.op = "GlobalReplace" /\ ok(obj) /\ WellFormed(inp.rewrite)) =>
        /\ last.ret = RefGlobalReplace.count
        /\ last.str = (IF RefGlobalReplace.count = 0 THEN inp.text
                       ELSE RefGlobalReplace.out)

\* The same, for the patterns without a factored prefix.
C10_ResultWhereTransparent ==
    (obj.prefix_ = <<>>) => C10_GlobalReplaceResult

\* The example of C10: a*, "bbb" and X give "XbXbXbX" and 4.
C10_Example ==
    (/\ last.op = "GlobalReplace" /\ ok(obj)
     /\ cons.rx.atoms = <<Star("a")>> /\ ~cons.rx.bot /\ ~cons.rx.eot
     /\ inp.text = <<"b", "b", "b">> /\ inp.rewrite = <<"X">>) =>
        /\ last.ret = 4
        /\ last.str = <<"X", "b", "X", "b", "X", "b", "X">>

\* ======================================================= claims on SpecMT

\* C2: a failed lazy reverse compilation is permanent.  It sets the error
\* to PatternTooLarge, the call of Match that triggered it returns false,
\* the error never returns to ok, every call of Match that begins after it,
\* or gets no reverse program, returns false for any anchor and any
\* nsubmatch, 0 included, and the reverse program is not compiled again.
C2_ReverseFailurePermanent ==
    /\ []((last.op = "Match" /\ last.triggered) =>
             (~last.ret /\ obj.error_code_ = "ErrorPatternTooLarge"))
    /\ [](obj.error_ = "pattern too large - reverse compile failed" =>
             (obj.error_code_ = "ErrorPatternTooLarge" /\ obj.rprog_ = "NULL"))
    /\ []((last.op = "Match" /\ (last.after \/ ~last.okAtStart \/ last.rp = "NULL"))
              => ~last.ret)
    /\ [][~ok(obj) => ~ok(obj')]_vars
    /\ [][obj.error_ # "empty_string" =>
              (hist'.rcompiles = hist.rcompiles /\ obj'.rprog_ = obj.rprog_)]_vars

\* After a failed reverse compilation a call with nsubmatch = 0, which would
\* need no reverse program, found the error and returned false.
C2_Witness ==
    /\ ReverseCompileFailed /\ hist.rcompiles = 1
    /\ last.op = "Match" /\ last.after /\ ~last.ret
    /\ last.req.nsubmatch = 0 /\ last.req.re_anchor = "UNANCHORED"

\* C4: the error fields are read and written under mutex_ only; no thread
\* is about to read the error state in the test of ok() that begins Match
\* while another thread is about to write it in ReverseProg.
C4_ErrorAccessUnderMutex ==
    \A r \in Threads : \A w \in Threads \ {r} :
        ~(thr[r].pc = "m_preflight" /\ mutex_ # r /\ thr[w].pc = "rp_fail")

\* The threads inside ReverseProg or NamedCapturingGroups, past the lock.
Inside == { t \in Threads : thr[t].pc \in {"rp_compile", "rp_fail", "rp_return",
                                           "ng_compute", "ng_return"} }

\* C5: under any interleaving rprog_ and named_groups_ are computed once at
\* most, by the thread that holds mutex_; once non-null they never change;
\* and all callers of ReverseProg get the same program.
C5_LazyFieldsOnce ==
    /\ [](hist.rcompiles <= 1 /\ hist.ngcomputes <= 1)
    /\ [](Cardinality(hist.rprogs) <= 1)
    /\ [](Inside = (IF mutex_ = Free THEN {} ELSE {mutex_}))
    /\ [][(obj'.rprog_ # obj.rprog_ \/ obj'.named_groups_ # obj.named_groups_) =>
              (mutex_ \in Threads /\ thr'[mutex_] # thr[mutex_])]_vars
    /\ [][/\ obj.rprog_ # "NULL" => obj'.rprog_ = obj.rprog_
          /\ obj.named_groups_ # "NULL" => obj'.named_groups_ = obj.named_groups_]_vars

\* Both fields are computed, and a thread other than the one that compiled
\* the reverse program got that program from ReverseProg.
C5_Witness ==
    /\ obj.rprog_ \in Threads /\ obj.named_groups_ # "NULL"
    /\ hist.rcompiles = 1 /\ hist.ngcomputes = 1
    /\ last.op = "Match" /\ last.rp = obj.rprog_ /\ last.t # obj.rprog_

\* The bytes Rewrite makes of the reference match of the pattern.
RefRewritten ==
    RewriteFrom(<<>>, inp.rewrite, 1, inp.text,
                RefVec(WholeMatch, 1 + MaxSubmatch(inp.rewrite)),
                1 + MaxSubmatch(inp.rewrite)).out

\* C11: for every text s and valid pattern P that matches s, Replace(s, P,
\* "\0") returns true and leaves s byte for byte as it was; whenever Replace
\* returns true it has substituted the span of the first match only, the
\* bytes before and after that span being untouched.
C11_ReplaceRoundTrip ==
    /\ (last.op = "Replace" /\ inp.rewrite = <<"\\", "0">>) =>
          /\ last.str = inp.text
          /\ (ok(obj) /\ WholeMatch.found) => last.ret
    /\ (last.op = "Replace" /\ last.ret) =>
          /\ WholeMatch.found
          /\ last.str = SubSeq(inp.text, 1, WholeMatch.span.b) \o RefRewritten
                          \o SubSeq(inp.text, WholeMatch.span.e + 1, Len(inp.text))

\* Replace with \0 returned true on a text whose first match is neither at
\* its beginning nor the whole of it.
C11_Witness ==
    /\ last.op = "Replace" /\ inp.rewrite = <<"\\", "0">> /\ last.ret
    /\ WholeMatch.span.b > 0 /\ PieceSize(WholeMatch.span) > 0
    /\ last.str = inp.text

\* The match of the entire regexp that Consume (anchored at the start) or
\* FindAndConsume (unanchored) looks for in the input, by the reference
\* matcher.
ConsumeMatch ==
    RefSearch(MkProg(cons.rx.atoms, cons.rx.fold, cons.rx.bot, cons.rx.eot, 1),
              0, Len(inp.text), inp.text,
              IF inp.op = "Consume" THEN "kAnchored" ELSE "kUnanchored",
              IF cons.env.longest_match THEN "kLongestMatch" ELSE "kFirstMatch")

\* C12: Consume and FindAndConsume advance the input exactly when they
\* return true, and the input then starts at the end of the whole match, the
\* text before the match being skipped too; when they return false, for any
\* reason, an argument that does not parse after a match included, the input
\* is as it was.
C12_ConsumeAdvances ==
    (last.op \in {"Consume", "FindAndConsume"}) =>
        /\ last.ret =>
              /\ ConsumeMatch.found
              /\ last.input = SubSeq(inp.text, ConsumeMatch.span.e + 1, Len(inp.text))
        /\ ~last.ret => last.input = inp.text

\* FindAndConsume returned true and skipped the byte before the match too.
C12_Witness ==
    /\ last.op = "FindAndConsume" /\ last.ret
    /\ ConsumeMatch.span.b > 0
    /\ Len(last.input) < Len(inp.text) - PieceSize(ConsumeMatch.span)

\* Consume returned false after a match, an argument not parsing, and left
\* the input alone.
C12_ParseFailure ==
    /\ last.op = "Consume" /\ ~last.ret /\ ok(obj)
    /\ ConsumeMatch.found /\ PieceSize(ConsumeMatch.span) > 0
    /\ inp.args = <<"int">> /\ NumberOfCapturingGroups(obj) >= 1

\* The match of the entire regexp that FullMatch, PartialMatch, Consume or
\* FindAndConsume looks for, by the reference matcher.
ArgsMatch ==
    RefSearch(MkProg(cons.rx.atoms, cons.rx.fold, cons.rx.bot, cons.rx.eot, 1),
              0, Len(inp.text), inp.text,
              IF inp.op \in {"FullMatch", "Consume"} THEN "kAnchored" ELSE "kUnanchored",
              IF inp.op = "FullMatch" THEN "kFullMatch"
              ELSE IF cons.env.longest_match THEN "kLongestMatch" ELSE "kFirstMatch")

\* Every target's parser accepts its capture.
AllTargetsParse ==
    \A i \in 1..Len(inp.args) :
        ArgParse(inp.args[i], inp.text, RefVec(ArgsMatch, Len(inp.args) + 1)[i])

\* C13: FullMatch, PartialMatch, Consume and FindAndConsume with n targets
\* on a valid pattern return true if and only if the regexp matched, n is at
\* most NumberOfCapturingGroups, and the parser of every target accepted its
\* capture; so one argument that does not parse, or more targets than
\* groups, makes the call return false although the regexp matched.
C13_ArgsDecideResult ==
    (last.op \in {"FullMatch", "PartialMatch", "Consume", "FindAndConsume"}) =>
        /\ ok(obj) =>
              last.ret = (/\ ArgsMatch.found
                          /\ Len(inp.args) <= NumberOfCapturingGroups(obj)
                          /\ AllTargetsParse)
        /\ ~ok(obj) => ~last.ret

\* FullMatch returned false although the regexp matched and has a group for
\* the target: the target's parser refused the capture.
C13_Witness ==
    /\ last.op = "FullMatch" /\ ~last.ret /\ ok(obj)
    /\ ArgsMatch.found
    /\ Len(inp.args) = 1 /\ NumberOfCapturingGroups(obj) >= 1
    /\ ~AllTargetsParse

\* PartialMatch returned false although the regexp matched: it was given
\* more targets than the regexp has groups.
C13_TooManyTargets ==
    /\ last.op = "PartialMatch" /\ ~last.ret /\ ok(obj)
    /\ ArgsMatch.found /\ AllTargetsParse
    /\ Len(inp.args) > NumberOfCapturingGroups(obj)

\* --------------------------- SpecPure: calls of the functions of one input
\* Rewrite, CheckRewriteString, QuoteMeta, the integer parsers of Arg and
\* PossibleMatchRange, each applied once to an input drawn from a bounded
\* set.

MaxRewriteLen == 3

SeqsUpTo(S, n) == UNION { [1..k -> S] : k \in 0..n }

\* The bytes of the rewrite templates: the backslash, the digits and a
\* byte that is neither.
RewriteBytes == {"\\", "0", "1", "2", "X"}

\* The templates of up to maxlen bytes.
Templates(maxlen) == SeqsUpTo(RewriteBytes, maxlen)

\* The text the capture vectors of Rewrite point into.
PureText == <<"a", "b">>

\* Capture vectors: the whole text, its first byte and a null piece; the
\* last byte, an empty piece and the last byte again.
CaptureVectors ==
    { [i \in 0..2 |-> CASE i = 0 -> Piece(0, 2) [] i = 1 -> Piece(0, 1) [] i = 2 -> NullPiece],
      [i \in 0..2 |-> CASE i = 0 -> Piece(1, 2) [] i = 1 -> Piece(1, 1) [] i = 2 -> Piece(1, 2)] }

NoVec == [i \in 0..2 |-> NullPiece]

PureInput(op, rewrite, vec, veclen) ==
    [op |-> op, rewrite |-> rewrite, vec |-> vec, veclen |-> veclen]

RewriteInputs(maxlen) ==
    { PureInput("Rewrite", t, v, n) : t \in Templates(maxlen), v \in CaptureVectors, n \in 0..3 }

\* The pattern of the calls that do not look at the pattern.
AnyConstruction == [rx |-> Rx(FALSE, <<Lit("a")>>, FALSE, FALSE), env |-> Env(TRUE, 10, FALSE, FALSE)]

\* re.Rewrite(&out, rewrite, vec, veclen), out holding OldOut.
CallRewrite ==
    /\ inp.op = "Rewrite" /\ last = NoCall
    /\ LET Returned(r) == last' = [op |-> "Rewrite", ret |-> r.ok, out |-> r.out]
       IN Returned(Rewrite(OldOut, inp.rewrite, PureText, inp.vec, inp.veclen))
    /\ UNCHANGED <<obj, cons, inp, hist, gr, thr, mutex_>>

\* The tokens of a template from byte s on: a backslash pair, a capture
\* reference, a backslash before another byte, a trailing backslash, or a
\* literal byte.
RECURSIVE Tokens(_, _)
Tokens(t, s) ==
    IF s > Len(t) THEN <<>>
    ELSE IF t[s] # "\\" THEN <<[k |-> "literal", c |-> t[s]]>> \o Tokens(t, s + 1)
    ELSE IF s = Len(t) THEN <<[k |-> "trailing"]>>
    ELSE IF t[s + 1] = "\\" THEN <<[k |-> "backslash"]>> \o Tokens(t, s + 2)
    ELSE IF t[s + 1] \in {"0", "1", "2"}
    THEN <<[k |-> "capture", d |-> CHOOSE d \in 0..2 : <<"0", "1", "2">>[d + 1] = t[s + 1]]>>
         \o Tokens(t, s + 2)
    ELSE <<[k |-> "other"]>> \o Tokens(t, s + 2)

\* What a token stands for in the output.
Emits(tok, text, vec) ==
    CASE tok.k = "literal" -> <<tok.c>>
      [] tok.k = "backslash" -> <<"\\">>
      [] tok.k = "capture" ->
           IF vec[tok.d].b >= 0 /\ vec[tok.d].e > vec[tok.d].b
           THEN SubSeq(text, vec[tok.d].b + 1, vec[tok.d].e) ELSE <<>>
      [] OTHER -> <<>>

RECURSIVE EmitAll(_, _, _, _)
EmitAll(toks, i, text, vec) ==
    IF i > Len(toks) THEN <<>>
    ELSE Emits(toks[i], text, vec) \o EmitAll(toks, i + 1, text, vec)

\* A template Rewrite is to refuse for a vector of veclen pieces.
Refused(toks, veclen) ==
    \E i \in 1..Len(toks) :
        \/ toks[i].k \in {"other", "trailing"}
        \/ toks[i].k = "capture" /\ toks[i].d >= veclen

\* C14: Rewrite returns false exactly when the template holds a capture
\* reference \d with d >= veclen, a backslash before a byte that is neither
\* a digit nor a backslash, or a trailing backslash; when it returns true
\* the output is what it held before followed by what each token stands
\* for, in order: a backslash for \\, the bytes of capture d for \d
\* (nothing for a null or empty capture), the byte itself otherwise.
C14_RewriteTokens ==
    last.op = "Rewrite" =>
       LET Judged(toks) ==
             /\ last.ret = ~Refused(toks, inp.veclen)
             /\ last.ret => last.out = OldOut \o EmitAll(toks, 1, PureText, inp.vec)
       IN Judged(Tokens(inp.rewrite, 1))

\* Rewrite succeeded on \0X, appending the bytes of capture 0 and the X.
C14_Witness ==
    /\ last.op = "Rewrite" /\ last.ret
    /\ inp.rewrite = <<"\\", "0", "X">> /\ inp.vec[0] = Piece(0, 2)
    /\ last.out = OldOut \o <<"a", "b", "X">>

\* Rewrite refused \2 for a vector of two pieces.
C14_Refusal ==
    /\ last.op = "Rewrite" /\ ~last.ret
    /\ inp.rewrite = <<"\\", "2">> /\ inp.veclen = 2

\* The patterns of the calls that look at the pattern: each regexp,
\* compiled, and the pattern that does not parse.
PureConstructions == { c \in Constructions : c.env = Env(TRUE, 10, FALSE, FALSE) }

CheckInputs(maxlen) ==
    { PureInput("CheckRewriteString", t, v, 0) : t \in Templates(maxlen), v \in CaptureVectors }

\* re.CheckRewriteString(rewrite, &error).
CallCheckRewriteString ==
    /\ inp.op = "CheckRewriteString" /\ last = NoCall
    /\ LET Returned(r) == last' = [op |-> "CheckRewriteString", ret |-> r.ok, error |-> r.error]
       IN Returned(CheckRewriteString(obj, inp.rewrite))
    /\ UNCHANGED <<obj, cons, inp, hist, gr, thr, mutex_>>

\* C15: CheckRewriteString(T) returns true exactly when Rewrite with T
\* returns true for a capture vector of the size of the pattern, veclen =
\* 1 + NumberOfCapturingGroups: the two agree on a trailing backslash, on a
\* backslash before a byte that is neither a digit nor a backslash, and on
\* a capture reference beyond the groups of the pattern.
C15_CheckAgreesWithRewrite ==
    last.op = "CheckRewriteString" =>
        last.ret = Rewrite(OldOut, inp.rewrite, PureText, inp.vec,
                           1 + NumberOfCapturingGroups(obj)).ok

\* Both refuse \2 for a pattern of one group; both accept \1 for it.
C15_Witness ==
    /\ last.op = "CheckRewriteString" /\ ~last.ret
    /\ NumberOfCapturingGroups(obj) = 1
    /\ inp.rewrite = <<"X", "\\", "2">>

C15_Accepted ==
    /\ last.op = "CheckRewriteString" /\ last.ret
    /\ NumberOfCapturingGroups(obj) = 1
    /\ inp.rewrite = <<"\\", "1">>

\* Both refuse \0 for a pattern that does not parse, which has -1 groups.
C15_InvalidPattern ==
    /\ last.op = "CheckRewriteString" /\ ~last.ret
    /\ NumberOfCapturingGroups(obj) = -1
    /\ inp.rewrite = <<"\\", "0">>

MaxQuoteLen == 3

\* The bytes given to QuoteMeta: NUL, '/', the first and last digit, the
\* first and last letter of each case, '_', the backslash, 'x', DEL and two
\* bytes with the high bit set.
QuoteBytes == {0, 47, 48, 57, 65, 90, 92, 95, 97, 120, 122, 127, 128, 255}

QuoteInputs(maxlen) ==
    { [op |-> "QuoteMeta", unquoted |-> t] : t \in SeqsUpTo(QuoteBytes, maxlen) }

\* RE2::QuoteMeta(unquoted).
CallQuoteMeta ==
    /\ inp.op = "QuoteMeta" /\ last = NoCall
    /\ last' = [op |-> "QuoteMeta", ret |-> QuoteMeta(inp.unquoted)]
    /\ UNCHANGED <<obj, cons, inp, hist, gr, thr, mutex_>>

\* What the claim has QuoteMeta emit for one byte.
Quoted(c) ==
    IF \/ c \in 48..57 \/ c \in 65..90 \/ c \in 97..122 \/ c = 95 \/ c >= 128
    THEN <<c>>
    ELSE IF c = 0 THEN <<92, 120, 48, 48>>
    ELSE <<92, c>>

RECURSIVE QuotedAll(_, _)
QuotedAll(t, i) == IF i > Len(t) THEN <<>> ELSE Quoted(t[i]) \o QuotedAll(t, i + 1)

\* Removing the escapes: \x00 stands for NUL, a backslash before any other
\* byte for that byte, and any other byte for itself.
RECURSIVE Unescape(_, _)
Unescape(q, i) ==
    IF i > Len(q) THEN <<>>
    ELSE IF q[i] # 92 THEN <<q[i]>> \o Unescape(q, i + 1)
    ELSE IF i + 3 <= Len(q) /\ SubSeq(q, i + 1, i + 3) = <<120, 48, 48>>
    THEN <<0>> \o Unescape(q, i + 4)
    ELSE IF i + 1 <= Len(q) THEN <<q[i + 1]>> \o Unescape(q, i + 2)
    ELSE <<92>>

\* C16: QuoteMeta maps each byte on its own and in order: letters,
\* digits, '_' and bytes with the high bit set as they are, NUL as the four
\* bytes \x00, any other byte behind one backslash; and removing the
\* escapes from the result gives the input back.
C16_QuoteMetaBytes ==
    last.op = "QuoteMeta" =>
        /\ last.ret = QuotedAll(inp.unquoted, 1)
        /\ Unescape(last.ret, 1) = inp.unquoted

\* NUL before a digit, and a backslash; a high byte and a dot.
C16_Witness ==
    /\ last.op = "QuoteMeta"
    /\ inp.unquoted = <<0, 48, 92>>
    /\ last.ret = <<92, 120, 48, 48, 48, 92, 92>>

C16_HighBit ==
    /\ last.op = "QuoteMeta"
    /\ inp.unquoted = <<255, 97, 47>>
    /\ last.ret = <<255, 97, 92, 47>>

MaxNumLen == 3

\* The bytes of the memory given to the integer parsers.
NumBytes == {"0", "1", "9", "a", "x", "-", " "}

IntegerTypes == {"short", "ushort", "int", "uint", "long", "ulong"}

\* Thirty-four zeros: an input longer than kMaxNumberLength.
LongZeros == [i \in 1..(kMaxNumberLength + 2) |-> "0"]

ParseInput(type, str, n, radix) ==
    [op |-> "parse", type |-> type, str |-> str, n |-> n, radix |-> radix]

\* The input is the first n bytes of str; the bytes after it are what the
\* memory holds behind the input.  The memories of up to maxlen bytes, and
\* the long one.
ParseInputs(maxlen) ==
    { i \in { ParseInput(ty, m, n, r) : ty \in IntegerTypes, r \in {10, 16},
                                       m \in SeqsUpTo(NumBytes, maxlen), n \in 0..maxlen } :
        i.n <= Len(i.str) }
    \cup { ParseInput("long", LongZeros, n, 10) : n \in {kMaxNumberLength + 1, kMaxNumberLength + 2} }

\* Arg::parse_<type>(str, n, dest) and Arg::parse_<type>_hex(str, n, dest).
CallParseInteger ==
    /\ inp.op = "parse" /\ last = NoCall
    /\ LET Returned(r) == last' = [op |-> "parse", ret |-> r.ok, dest |-> r.dest]
       IN Returned(ParseInteger(inp.type, inp.str, inp.n, inp.radix))
    /\ UNCHANGED <<obj, cons, inp, hist, gr, thr, mutex_>>

\* The input of a parser: the first n bytes.
Given == SubSeq(inp.str, 1, inp.n)

HexDigits == <<"0", "1", "2", "3", "4", "5", "6", "7", "8", "9", "a", "b", "c", "d", "e", "f">>

IsDigitIn(c, radix) == \E k \in 1..radix : HexDigits[k] = c

ValueOfDigit(c) == (CHOOSE k \in 1..16 : HexDigits[k] = c) - 1

\* The digits of a numeral given in full: the bytes after an optional sign
\* and, for radix 16, an optional 0x.
DigitsOf(b, radix) ==
    LET u == IF Len(b) > 0 /\ b[1] \in {"-", "+"} THEN Tail(b) ELSE b
    IN IF radix = 16 /\ Len(u) > 2 /\ u[1] = "0" /\ u[2] = "x" THEN Tail(Tail(u)) ELSE u

\* The input is a numeral from its first byte to its last.
IsNumeral(b, radix) ==
    LET Digs(d) == Len(d) > 0 /\ \A i \in 1..Len(d) : IsDigitIn(d[i], radix)
    IN Digs(DigitsOf(b, radix))

RECURSIVE DigitsValue(_, _, _)
DigitsValue(d, radix, acc) ==
    IF d = <<>> THEN acc
    ELSE DigitsValue(Tail(d), radix, acc * radix + ValueOfDigit(Head(d)))

NumeralValue(b, radix) ==
    LET v == DigitsValue(DigitsOf(b, radix), radix, 0)
    IN IF b[1] = "-" THEN -v ELSE v

IsUnsigned(type) == type \in {"ushort", "uint", "ulong"}

BitsOf(type) ==
    CASE type \in {"short", "ushort"} -> ShortBits
      [] type \in {"int", "uint"} -> IntBits
      [] type \in {"long", "ulong"} -> LongBits

\* The values of a type.
ValuesOf(type) ==
    IF IsUnsigned(type) THEN 0..(Pow2(BitsOf(type)) - 1)
    ELSE (-Pow2(BitsOf(type) - 1))..(Pow2(BitsOf(type) - 1) - 1)

\* C17: an integer parser returns true only if the input is not empty,
\* does not begin with white space, does not begin with '-' when the type
\* is unsigned, is a numeral from its first byte to its last, and the value
\* of the numeral is a value of the destination type (so a value beyond
\* long or unsigned long fails, and one the narrower type cannot hold
\* fails); and then the destination holds that value.
C17_ParsersReject ==
    (last.op = "parse" /\ last.ret) =>
        /\ inp.n > 0
        /\ ~isspace(Given[1])
        /\ IsUnsigned(inp.type) => Given[1] # "-"
        /\ IsNumeral(Given, inp.radix)
        /\ NumeralValue(Given, inp.radix) \in ValuesOf(inp.type)
        /\ last.dest = NumeralValue(Given, inp.radix)

\* parse_int took 11 out of "11x"; parse_short refused it, the value not
\* surviving the cast; parse_long refused 99, which strtol cannot hold;
\* parse_uint refused -1.
C17_Witness ==
    /\ last.op = "parse" /\ last.ret /\ inp.type = "int" /\ inp.radix = 10
    /\ inp.str = <<"1", "1", "x">> /\ inp.n = 2 /\ last.dest = 11

C17_CastFails ==
    /\ last.op = "parse" /\ ~last.ret /\ inp.type = "short" /\ inp.radix = 10
    /\ inp.str = <<"1", "1">> /\ inp.n = 2

C17_Overflow ==
    /\ last.op = "parse" /\ ~last.ret /\ inp.type = "long" /\ inp.radix = 10
    /\ inp.str = <<"9", "9">> /\ inp.n = 2

C17_Minus ==
    /\ last.op = "parse" /\ ~last.ret /\ inp.type = "uint" /\ inp.radix = 10
    /\ inp.str = <<"-", "1">> /\ inp.n = 2

MaxRangeLen == 3

\* What prog_->PossibleMatchRange answers: nothing; the empty range; a to
\* b; a to ab.
DfaAnswers ==
    { [ok |-> FALSE, min |-> <<>>, max |-> <<>>],
      [ok |-> TRUE, min |-> <<>>, max |-> <<>>],
      [ok |-> TRUE, min |-> <<97>>, max |-> <<98>>],
      [ok |-> TRUE, min |-> <<97>>, max |-> <<97, 98>>] }

\* The patterns of PossibleMatchRange: those of the other calls, and two
\* Latin-1 patterns whose prefix holds the byte 255: ^\xFFa* and ^a\xFFa*;
\* each with a forward program that fits or does not.
RangeConstructions ==
    { c \in [rx : Regexps \cup { Rx(TRUE, <<Lit("0xFF"), Star("a")>>, FALSE, FALSE),
                                 Rx(TRUE, <<Lit("a"), Lit("0xFF"), Star("a")>>, FALSE, FALSE) },
             env : { Env(TRUE, 10, FALSE, FALSE), Env(FALSE, 10, FALSE, FALSE) }] :
        ~c.rx.valid => c.env = Env(TRUE, 10, FALSE, FALSE) }

\* What the caller's strings hold before the call.
OldRange == <<120>>

RangeInputs(maxlen) ==
    { [op |-> "PossibleMatchRange", maxlen |-> L, dfa |-> d] :
        L \in 0..maxlen, d \in DfaAnswers }

\* re.PossibleMatchRange(&min, &max, maxlen).
CallPossibleMatchRange ==
    /\ inp.op = "PossibleMatchRange" /\ last = NoCall
    /\ LET Returned(r) ==
             last' = [op |-> "PossibleMatchRange", ret |-> r.ret, min |-> r.min, max |-> r.max]
       IN Returned(PossibleMatchRange(obj, OldRange, OldRange, inp.maxlen, inp.dfa))
    /\ UNCHANGED <<obj, cons, inp, hist, gr, thr, mutex_>>

\* a <= b in the lexicographic order of byte strings.
RECURSIVE LexLeq(_, _)
LexLeq(a, b) ==
    IF a = <<>> THEN TRUE
    ELSE IF b = <<>> THEN FALSE
    ELSE IF Head(a) # Head(b) THEN Head(a) < Head(b)
    ELSE LexLeq(Tail(a), Tail(b))

\* The first n bytes of the prefix, and the same with the lowercase
\* letters uppercased when the prefix folds case.
RangeP == [i \in 1..Min(Len(obj.prefix_), inp.maxlen) |-> Ord(obj.prefix_[i])]

RangeUpperP ==
    [i \in DOMAIN RangeP |->
        IF obj.prefix_foldcase_ /\ RangeP[i] \in 97..122 THEN RangeP[i] - 32 ELSE RangeP[i]]

\* The least string above every string that begins with p, when there is
\* one: p without its trailing bytes 255, the last byte one higher.
RECURSIVE SuccessorOf(_)
SuccessorOf(p) ==
    IF p = <<>> THEN <<>>
    ELSE IF p[Len(p)] < 255 THEN SubSeq(p, 1, Len(p) - 1) \o <<p[Len(p)] + 1>>
    ELSE SuccessorOf(SubSeq(p, 1, Len(p) - 1))

\* The bounds the claim gives, case by case.
RangeAsClaimed ==
    IF obj.prog_.null THEN ~last.ret
    ELSE IF inp.maxlen - Len(RangeP) > 0 /\ inp.dfa.ok
    THEN /\ last.ret
         /\ last.min = RangeUpperP \o inp.dfa.min
         /\ last.max = RangeP \o inp.dfa.max
    ELSE IF Len(RangeP) > 0
    THEN /\ last.ret
         /\ last.min = RangeUpperP
         /\ last.max = SuccessorOf(RangeP)
    ELSE ~last.ret /\ last.min = <<>> /\ last.max = <<>>

\* C18: PossibleMatchRange(min, max, L) with n = min(|prefix|, L), P the
\* first n bytes of the prefix and P' the same uppercased when the prefix
\* folds case: when the forward program gives a range for the budget
\* L - n > 0 it returns true with min = P' + dmin and max = P + dmax;
\* otherwise, when n > 0, it returns true with min = P' and max = the
\* successor of P; otherwise it returns false with both bounds empty.
\* Whenever it returns true, min <= max; without a forward program it
\* returns false.
C18_PossibleMatchRange ==
    last.op = "PossibleMatchRange" =>
        /\ RangeAsClaimed
        /\ last.ret => LexLeq(last.min, last.max)

\* The same for every call but those whose P is made of bytes 255 only and
\* gets no range from the program.
C18_RangeWhereSuccessorExists ==
    last.op = "PossibleMatchRange" =>
        /\ RangeAsClaimed
        /\ (last.ret /\ last.max # <<>>) => LexLeq(last.min, last.max)
        /\ (last.ret /\ last.max = <<>> /\ last.min # <<>>) =>
              /\ \A i \in DOMAIN RangeP : RangeP[i] = 255
              /\ ~(inp.maxlen - Len(RangeP) > 0 /\ inp.dfa.ok)

\* The prefix ab, folding case, cut to one byte: A to b.
C18_Witness ==
    /\ last.op = "PossibleMatchRange" /\ last.ret
    /\ obj.prefix_foldcase_ /\ inp.maxlen = 1
    /\ last.min = <<65>> /\ last.max = <<98>>

\* True with min above max: the prefix \xFF with no budget left.
C18_MinAboveMax ==
    /\ last.op = "PossibleMatchRange" /\ last.ret
    /\ last.min = <<255>> /\ last.max = <<>>

\* Sizes of programs and of texts on both sides of what Match compares
\* them with: 500 instructions; 8, 4096 and 262144 / size bytes.
ProgSizes == {10, 64, 500, 501}

TextSizes == {0, 1, 8, 9, 524, 525, 4096, 4097}

\* The calls of Match by their sizes: skip = startpos + prefixlen is what
\* the subtext has lost when the switch is reached.
PlanInputs ==
    { i \in [op : {"MatchPlan"}, is_one_pass : BOOLEAN, longest_match : {FALSE},
             size : ProgSizes, tsize : TextSizes, skip : {0, 1},
             re_anchor : Anchors, nsubmatch : {0, 1, 2, 6}, ngroups : {0, 5}] :
        i.skip <= i.tsize }

\* What the engines can answer on a subtext of the size given.
PlanChoices(subsize) ==
    { e \in [fwd : {"match", "nomatch", "failed"}, rev : {"match", "nomatch", "failed"},
             msize : {0, 524, 525, subsize}, rnull : BOOLEAN, engine_ok : BOOLEAN] :
        e.msize <= subsize }

\* The engines one call of Match runs.
CallMatchPlan ==
    /\ inp.op = "MatchPlan" /\ last = NoCall
    /\ \E e \in PlanChoices(inp.tsize - inp.skip) :
         last' = [op |-> "MatchPlan",
                  plan |-> MatchPlan(inp.is_one_pass, inp.longest_match, inp.size,
                                     inp.tsize, inp.tsize - inp.skip, inp.re_anchor,
                                     inp.nsubmatch, inp.ngroups, e)]
    /\ UNCHANGED <<obj, cons, inp, hist, gr, thr, mutex_>>

\* The templates of Replace, GlobalReplace and Extract, \9 among them.
SubstituteBytes == {"\\", "0", "9", "X"}

SubstituteInputs(maxlen) ==
    { [op |-> "Substitute", rewrite |-> t] : t \in SeqsUpTo(SubstituteBytes, maxlen) }

\* The vec[kVecSize] of the three functions after a Match that succeeded:
\* the whole text, null pieces, and the last byte as capture 9.
MatchedVector ==
    [i \in 0..(kVecSize - 1) |->
        CASE i = 0 -> Piece(0, 2) [] i = 9 -> Piece(1, 2) [] OTHER -> NullPiece]

\* What Replace, GlobalReplace and Extract do with the template: nvec = 1 +
\* MaxSubmatch(rewrite), the test of nvec against the size of vec, and,
\* the match found, re.Rewrite(&s, rewrite, vec, nvec).
CallSubstitute ==
    /\ inp.op = "Substitute" /\ last = NoCall
    /\ LET Returned(nvec, r) ==
             last' = [op |-> "Substitute", max |-> MaxSubmatch(inp.rewrite),
                      overflow |-> nvec > kVecSize,
                      ret |-> nvec <= kVecSize /\ r.ok, out |-> r.out]
       IN Returned(1 + MaxSubmatch(inp.rewrite),
                   Rewrite(<<>>, inp.rewrite, PureText, MatchedVector,
                           1 + MaxSubmatch(inp.rewrite)))
    /\ UNCHANGED <<obj, cons, inp, hist, gr, thr, mutex_>>

\* Every value of max_mem.
BudgetInputs == { [op |-> "Budgets", max_mem |-> m] : m \in MemMin..MemMax }

\* The budgets of a pattern constructed with max_mem: that of RE2::Init
\* and that of RE2::ReverseProg.
CallBudgets ==
    /\ inp.op = "Budgets" /\ last = NoCall
    /\ \E f \in ForwardBudgets(inp.max_mem) :
         last' = [op |-> "Budgets", forward |-> f, reverse |-> ReverseBudget(inp.max_mem)]
    /\ UNCHANGED <<obj, cons, inp, hist, gr, thr, mutex_>>

\* C21: for every value of max_mem the forward program gets the budget
\* floor(2 * max_mem / 3) and the reverse program floor(max_mem / 3), both
\* are non-negative, and their sum is at most max_mem.
C21_BudgetSplit ==
    last.op = "Budgets" =>
        /\ last.forward = (2 * inp.max_mem) \div 3
        /\ last.reverse = inp.max_mem \div 3
        /\ last.forward >= 0 /\ last.reverse >= 0
        /\ last.forward + last.reverse <= inp.max_mem

\* The same for the values of max_mem from 0 to half the largest one.
C21_SplitWhereProductFits ==
    (last.op = "Budgets" /\ inp.max_mem >= 0 /\ 2 * inp.max_mem <= MemMax) =>
        /\ last.forward = (2 * inp.max_mem) \div 3
        /\ last.reverse = inp.max_mem \div 3
        /\ last.forward >= 0 /\ last.reverse >= 0
        /\ last.forward + last.reverse <= inp.max_mem

\* A positive max_mem whose forward budget is negative.
C21_NegativeBudget ==
    /\ last.op = "Budgets" /\ inp.max_mem > 0 /\ last.forward < 0

InitPure ==
    /\ \/ inp \in RewriteInputs(MaxRewriteLen)
       \/ inp \in CheckInputs(MaxRewriteLen)
       \/ inp \in QuoteInputs(MaxQuoteLen)
       \/ inp \in ParseInputs(MaxNumLen)
       \/ inp \in RangeInputs(MaxRangeLen)
       \/ inp \in BudgetInputs
       \/ inp \in PlanInputs
       \/ inp \in SubstituteInputs(MaxRewriteLen + 1)
    /\ cons \in CASE inp.op = "CheckRewriteString" -> PureConstructions
                  [] inp.op = "PossibleMatchRange" -> RangeConstructions
                  [] OTHER -> {AnyConstruction}
    /\ obj = REInit(cons.rx, cons.env)
    /\ last = NoCall
    /\ hist = [rcompiles |-> 0]
    /\ gr = GRIdle
    /\ NoThreads

NextPure ==
    \/ CallRewrite \/ CallCheckRewriteString \/ CallQuoteMeta
    \/ CallParseInteger \/ CallPossibleMatchRange \/ CallBudgets
    \/ CallMatchPlan \/ CallSubstitute

SpecPure == InitPure /\ [][NextPure]_vars

\* C19: what NamedCapturingGroups returns never changes: all the calls on
\* a pattern return one and the same mapping, whatever other calls run in
\* between, a Match whose reverse compilation fails included.
C19_NamedGroupsImmutable == Cardinality(hist.maps) <= 1

\* The same as long as the pattern is not in error when the calls return.
C19_ImmutableWhileOk == ok(obj) => Cardinality(hist.maps) <= 1

\* A call returned the map of the named groups, a reverse compilation
\* failed, and a later call returned the empty map.
C19_MapThenEmpty ==
    /\ last.op = "NamedCapturingGroups" /\ last.map = "empty_map"
    /\ obj.named_groups_ \in Threads /\ obj.named_groups_ \in hist.maps
    /\ ~ok(obj)

\* ------------------------------------- SpecLog: the LOG(ERROR) lines
\* A pattern constructed with or without the option log_errors, and calls
\* of Match and Rewrite on it, the engines free to disagree; hist counts
\* the LOG(ERROR) lines and keeps the sites that wrote them.

MaxLogCalls == 2

\* if (options_.log_errors()) LOG(ERROR) << ...: the number of lines.
Gated(log_errors) == IF log_errors THEN 1 ELSE 0

\* The site of the line RE2::Init writes, "none" when it writes none.
InitSite(rx, o) ==
    IF ~rx.valid THEN "parse"
    ELSE IF o.prog_.null THEN "compile"
    ELSE "none"

\* The lines a call of Match writes, o being the object before the call
\* and c what MatchCall gives: for an invalid pattern and for a failing
\* reverse compilation under log_errors; for inconsistent engines always.
MatchLines(o, log_errors, c) ==
    IF ~ok(o) \/ o.suffix_regexp_.null
    THEN [n |-> Gated(log_errors), sites |-> IF log_errors THEN {"invalid"} ELSE {}]
    ELSE [n |-> (IF ~ok(c.o) THEN Gated(log_errors) ELSE 0) + c.res.info.errlog,
          sites |-> (IF ~ok(c.o) /\ log_errors THEN {"reverse"} ELSE {})
                    \cup (IF c.res.info.errlog > 0 THEN {"inconsistency"} ELSE {})]

\* The lines a call of Rewrite writes: one when it returns false.
RewriteLines(r) ==
    IF r.ok THEN [n |-> 0, sites |-> {}] ELSE [n |-> 1, sites |-> {"rewrite"}]

Logged(h, l) ==
    [errors |-> Min(MaxLogCalls + 1, h.errors + l.n), sites |-> h.sites \cup l.sites,
     calls |-> h.calls + 1]

LogChoices == [fwdFail : BOOLEAN, revFail : BOOLEAN, rfits : BOOLEAN, engineNone : BOOLEAN]

LogConstructions ==
    { c \in [rx : { Rx(FALSE, <<Lit("a")>>, FALSE, FALSE),
                    Rx(FALSE, <<Cap(Lit("a")), Cap(Opt("b"))>>, FALSE, FALSE), BadRx },
             env : { Env(TRUE, 10, FALSE, FALSE), Env(FALSE, 10, FALSE, FALSE) },
             log_errors : BOOLEAN] :
        ~c.rx.valid => c.env = Env(TRUE, 10, FALSE, FALSE) }

LogInputs ==
    { [op |-> "Match", text |-> t, startpos |-> 0, re_anchor |-> a, nsubmatch |-> n] :
        t \in { <<"a">>, <<"b", "a">> }, a \in Anchors, n \in 0..MaxNsub }
    \cup { PureInput("Rewrite", t, v, n) : t \in Rewrites, v \in CaptureVectors, n \in 1..2 }

InitLog ==
    /\ cons \in LogConstructions
    /\ obj = REInit(cons.rx, cons.env)
    /\ inp \in LogInputs
    /\ last = NoCall
    /\ hist = [errors |-> IF InitSite(cons.rx, obj) = "none" THEN 0 ELSE Gated(cons.log_errors),
               sites |-> IF InitSite(cons.rx, obj) # "none" /\ cons.log_errors
                         THEN {InitSite(cons.rx, obj)} ELSE {},
               calls |-> 0]
    /\ gr = GRIdle
    /\ NoThreads

\* re.Match(text, startpos, re_anchor, submatch, nsubmatch) and its lines.
MatchLogging ==
    /\ inp.op = "Match" /\ hist.calls < MaxLogCalls
    /\ \E ch \in LogChoices :
         LET Returned(c) ==
               /\ obj' = c.o
               /\ last' = [op |-> "Match", ret |-> c.res.ret, info |-> c.res.info]
               /\ hist' = Logged(hist, MatchLines(obj, cons.log_errors, c))
         IN Returned(MatchCall(obj, inp.text, inp.startpos, inp.re_anchor, inp.nsubmatch, ch))
    /\ UNCHANGED <<cons, inp, gr, thr, mutex_>>

\* re.Rewrite(&out, rewrite, vec, veclen) and its lines.
RewriteLogging ==
    /\ inp.op = "Rewrite" /\ hist.calls < MaxLogCalls
    /\ LET Returned(r) ==
             /\ last' = [op |-> "Rewrite", ret |-> r.ok, out |-> r.out]
             /\ hist' = Logged(hist, RewriteLines(r))
       IN Returned(Rewrite(OldOut, inp.rewrite, PureText, inp.vec, inp.veclen))
    /\ UNCHANGED <<obj, cons, inp, gr, thr, mutex_>>

NextLog == MatchLogging \/ RewriteLogging

SpecLog == InitLog /\ [][NextLog]_vars

\* C20: without the option log_errors no LOG(ERROR) line is written, by
\* the construction or by any call: not for a pattern that does not parse
\* or compile, not for the use of an invalid pattern, not for engines that
\* disagree.
C20_LogGated == ~cons.log_errors => hist.errors = 0

\* Without the option the lines come from two sites only: the engines
\* that disagree, and Rewrite refusing its template.
C20_GatedSitesSilent == ~cons.log_errors => hist.sites \subseteq {"inconsistency", "rewrite"}

\* Without the option: the DFA found a match, the engine extracting the
\* captures found none, and a line was written.
C20_InconsistencyLogged ==
    /\ ~cons.log_errors /\ last.op = "Match" /\ ~last.ret
    /\ last.info.fwd = "match" /\ last.info.errlog = 1
    /\ "inconsistency" \in hist.sites /\ hist.errors > 0

\* With the option every site writes: each of them is reached.
C20_AllSites ==
    /\ cons.log_errors
    /\ hist.sites \cap {"parse", "compile", "reverse"} # {}
    /\ "invalid" \in hist.sites

\* ------------------------------------------- the dispatch of RE2::Match

\* A call of Match that reached the switch with the effective anchor a.
Dispatched(a) == last.op = "Match" /\ last.info.anchor = a

\* No engine ran after the forward DFA.
NoOtherEngine ==
    /\ last.info.rev = "none" /\ last.info.engine = "none"
    /\ ~last.info.usedReverse /\ ~last.compiled

\* C22: in the unanchored dispatch, a forward DFA that reports no match
\* without failing makes Match return false with no other engine run; one
\* that reports a match makes Match return true at once when nsubmatch is
\* 0, the reverse program not demanded; and when the forward or the reverse
\* DFA fails, a capture engine is run unanchored over the whole subtext.
C22_UnanchoredDispatch ==
    Dispatched("UNANCHORED") =>
        /\ last.info.fwd = "nomatch" => ~last.ret /\ NoOtherEngine
        /\ (last.info.fwd = "match" /\ inp.nsubmatch = 0) =>
               last.ret /\ NoOtherEngine /\ obj = REInit(cons.rx, cons.env)
        /\ (last.info.fwd = "failed" \/ last.info.rev = "failed") =>
               /\ last.info.engine # "none"
               /\ last.info.eanchor = "kUnanchored"
               /\ last.info.searched = Piece(inp.startpos, Len(inp.text))

\* The reverse DFA failed and the capture engine found the match all the
\* same.
C22_Witness ==
    /\ Dispatched("UNANCHORED") /\ last.info.rev = "failed"
    /\ last.info.engine = "NFA" /\ last.ret /\ inp.startpos = 1

\* The forward DFA failed on a call with nsubmatch = 0, and the capture
\* engine answered.
C22_ForwardFailed ==
    /\ Dispatched("UNANCHORED") /\ last.info.fwd = "failed"
    /\ inp.nsubmatch = 0 /\ last.info.engine # "none" /\ last.ret

\* The terms of the dispatch, from the sizes of the call.
captures == Min(inp.nsubmatch, 1 + inp.ngroups)

canOnePass == inp.is_one_pass /\ captures <= 5

canBitState == inp.size <= 500

bitStateTextCap == 262144 \div inp.size

Planned == last.op = "MatchPlan"

DfaRun == last.plan.fwd \in {"match", "nomatch", "failed"}

\* C23: in the AnchorStart / AnchorBoth dispatch the forward DFA is run
\* exactly when neither shortcut holds, the shortcuts being (canOnePass and
\* |text| <= 4096 and (captures > 1 or |text| <= 8)) and (canBitState and
\* |text| <= bitStateTextCap and captures > 1); and when the DFA is run and
\* reports no match without failing, Match returns false.
C23_AnchoredDispatch ==
    (Planned /\ inp.re_anchor # "UNANCHORED") =>
        /\ DfaRun <=>
             ~ \/ canOnePass /\ inp.tsize <= 4096 /\ (captures > 1 \/ inp.tsize <= 8)
               \/ canBitState /\ inp.tsize <= bitStateTextCap /\ captures > 1
        /\ last.plan.fwd = "nomatch" => ~last.plan.ret /\ last.plan.engine = "none"

\* A text of 525 bytes under a program of 500 instructions: one byte above
\* the cap, the DFA is run, and it reports no match.
C23_Witness ==
    /\ Planned /\ inp.re_anchor = "ANCHOR_START" /\ inp.size = 500
    /\ inp.tsize = 525 /\ captures = 2 /\ ~canOnePass
    /\ last.plan.fwd = "nomatch" /\ ~last.plan.ret

\* The shortcuts taken at their limits: OnePass on 4096 bytes with two
\* captures, BitState on 524 bytes under 500 instructions.
C23_OnePassAtLimit ==
    /\ Planned /\ inp.re_anchor = "ANCHOR_BOTH" /\ inp.tsize = 4096
    /\ captures = 2 /\ last.plan.fwd = "skipped for OnePass"

C23_BitStateAtLimit ==
    /\ Planned /\ inp.re_anchor = "ANCHOR_START" /\ inp.tsize = 524
    /\ inp.size = 500 /\ last.plan.fwd = "skipped for BitState"

\* Capture extraction ran: an engine was invoked to store the captures.
Extracted == Planned /\ last.plan.engine # "none"

\* C24: the one capture engine invoked is OnePass if canOnePass and the
\* search is anchored, else BitState if the program size is at most 500
\* and the searched text is at most floor(262144 / program size) long, else
\* NFA; so OnePass is never run unanchored, and BitState only when program
\* size times searched length is at most 256 * 1024.
C24_CaptureEngine ==
    Extracted =>
        /\ last.plan.engine =
             IF canOnePass /\ last.plan.eanchor = "kAnchored" THEN "OnePass"
             ELSE IF inp.size <= 500 /\ last.plan.esize <= 262144 \div inp.size
             THEN "BitState"
             ELSE "NFA"
        /\ last.plan.eanchor \in {"kAnchored", "kUnanchored"}
        /\ last.plan.engine = "OnePass" => last.plan.eanchor # "kUnanchored"
        /\ last.plan.engine = "BitState" => inp.size * last.plan.esize <= 256 * 1024

\* BitState on 524 bytes under 500 instructions, the text of 525 bytes
\* having lost one byte to startpos.
C24_Witness ==
    /\ Extracted /\ last.plan.engine = "BitState" /\ inp.size = 500
    /\ inp.tsize = 525 /\ last.plan.esize = 524

\* The NFA one byte above the cap; and a one-pass program searched
\* unanchored by another engine.
C24_NfaAboveCap ==
    /\ Extracted /\ last.plan.engine = "NFA" /\ inp.size = 500
    /\ last.plan.esize = 525

C24_OnePassNotUnanchored ==
    /\ Extracted /\ canOnePass /\ last.plan.eanchor = "kUnanchored"
    /\ last.plan.engine = "BitState"

\* Unanchored < AnchorStart < AnchorBoth.
AnchorRank(a) ==
    CASE a = "UNANCHORED" -> 0 [] a = "ANCHOR_START" -> 1 [] a = "ANCHOR_BOTH" -> 2

\* A call of Match that reached the switch: the pattern is valid and its
\* prefix, if any, matched.
ReachedSwitch == last.op = "Match" /\ last.info.anchor # "none"

\* C25: the effective anchor is never weaker than the requested one, is
\* AnchorBoth when the program is anchored at both ends, at least
\* AnchorStart when the program is anchored at start or a non-empty prefix
\* matched; and the kind of search is FullMatch exactly when the effective
\* anchor is AnchorBoth, else LongestMatch under longestMatch, else
\* FirstMatch.
C25_AnchorPromotion ==
    ReachedSwitch =>
        /\ AnchorRank(last.info.anchor) >= AnchorRank(inp.re_anchor)
        /\ (obj.prog_.anchor_start /\ obj.prog_.anchor_end) =>
               last.info.anchor = "ANCHOR_BOTH"
        /\ (obj.prog_.anchor_start \/ obj.prefix_ # <<>>) =>
               AnchorRank(last.info.anchor) >= 1
        /\ last.info.kind = "kFullMatch" <=> last.info.anchor = "ANCHOR_BOTH"
        /\ last.info.anchor # "ANCHOR_BOTH" =>
               last.info.kind = IF cons.env.longest_match THEN "kLongestMatch"
                                ELSE "kFirstMatch"

\* An unanchored request promoted to AnchorStart by a prefix that matched.
C25_Witness ==
    /\ ReachedSwitch /\ inp.re_anchor = "UNANCHORED" /\ obj.prefix_ # <<>>
    /\ ~obj.prog_.anchor_start /\ last.info.anchor = "ANCHOR_START"
    /\ last.info.kind = "kFirstMatch"

\* Unanchored requests promoted by the program: to AnchorBoth, and to
\* AnchorStart; and a request kept, searched with LongestMatch.
C25_PromotedToBoth ==
    /\ ReachedSwitch /\ inp.re_anchor = "UNANCHORED"
    /\ last.info.anchor = "ANCHOR_BOTH" /\ last.info.kind = "kFullMatch"

C25_PromotedByProgram ==
    /\ ReachedSwitch /\ inp.re_anchor = "UNANCHORED" /\ obj.prefix_ = <<>>
    /\ last.info.anchor = "ANCHOR_START"

C25_KeptLongest ==
    /\ ReachedSwitch /\ inp.re_anchor = "UNANCHORED"
    /\ last.info.anchor = "UNANCHORED" /\ last.info.kind = "kLongestMatch"

\* The call of Match this step makes is one that may demand the reverse
\* program: its effective anchor is UNANCHORED, nsubmatch > 0, and the
\* forward DFA reported a match.
MayDemandReverse ==
    /\ last'.info.anchor = "UNANCHORED" /\ inp.nsubmatch > 0
    /\ last'.info.fwd = "match"

\* C26: ReverseProg() is called only by a Match with effective anchor
\* UNANCHORED and nsubmatch > 0 whose forward DFA reported a match; every
\* other call of Match, every FullMatch and Consume, and every call with
\* nsubmatch = 0 leaves the object, its error and rprog_ included, as it
\* was.
C26_ReverseProgDemand ==
    [][ /\ last'.op = "Match" =>
              /\ last'.info.usedReverse => MayDemandReverse
              /\ ~MayDemandReverse => obj' = obj /\ ~last'.compiled
        /\ last'.op \in {"FullMatch", "Consume"} => obj' = obj
        /\ (last'.op = "PartialMatch" /\ inp.args = <<>>) => obj' = obj
      ]_vars

\* A Match that demanded the reverse program and moved the pattern into
\* the error state.
C26_Witness ==
    /\ last.op = "Match" /\ last.info.usedReverse /\ last.compiled
    /\ last.info.anchor = "UNANCHORED" /\ inp.nsubmatch > 0
    /\ last.okBefore /\ ~ok(obj)

\* A FullMatch with two arguments that succeeded on a pattern without
\* reverse program and left it so.
C26_FullMatchFrame ==
    /\ last.op = "FullMatch" /\ last.ret /\ Len(inp.args) = 2
    /\ obj.rprog_ = "NULL" /\ ok(obj)

\* A Match promoted to ANCHOR_START by the program, with submatches, that
\* returned true and compiled nothing.
C26_PromotedFrame ==
    /\ last.op = "Match" /\ inp.re_anchor = "UNANCHORED" /\ inp.nsubmatch > 0
    /\ last.info.anchor = "ANCHOR_START" /\ last.ret /\ obj.rprog_ = "NULL"

\* A template Rewrite rejects whatever the captures: from byte i on there
\* is a backslash followed by a byte that is neither a digit nor a
\* backslash, or a backslash ends the template.
RECURSIVE MalformedFrom(_, _)
MalformedFrom(rewrite, i) ==
    IF i > Len(rewrite) THEN FALSE
    ELSE IF rewrite[i] # "\\" THEN MalformedFrom(rewrite, i + 1)
    ELSE IF i = Len(rewrite) THEN TRUE
    ELSE IF isdigit(rewrite[i + 1]) \/ rewrite[i + 1] = "\\"
    THEN MalformedFrom(rewrite, i + 2)
    ELSE TRUE

Malformed(rewrite) == MalformedFrom(rewrite, 1)

\* C27: with a template that Rewrite rejects, GlobalReplace substitutes
\* nothing, returns 0 and leaves the text unchanged, even when the pattern
\* matches.
C27_GlobalReplaceMalformed ==
    (last.op = "GlobalReplace" /\ Malformed(inp.rewrite)) =>
        last.ret = 0 /\ last.str = inp.text

\* A malformed template, a count above 0 and a text that changed.
C27_Substituted ==
    /\ last.op = "GlobalReplace" /\ Malformed(inp.rewrite)
    /\ last.ret > 0 /\ last.str # inp.text

\* Replace with such a template returns false and leaves the text
\* unchanged; and so does GlobalReplace when it returns 0.
C27_ReplaceRefuses ==
    /\ (last.op = "Replace" /\ Malformed(inp.rewrite)) =>
           ~last.ret /\ last.str = inp.text
    /\ (last.op = "GlobalReplace" /\ last.ret = 0) => last.str = inp.text

\* What the parser called gives on the same captured bytes with nothing
\* behind them but the end of the text.
OnCapturedAlone == ParseInteger(inp.type, Given, inp.n, inp.radix)

ParserResult == [ok |-> last.ret, dest |-> last.dest]

\* C28: the result of a numeric parser on (str, n), the boolean and the
\* value stored, depends on the n captured bytes only: it is the result the
\* same bytes give whatever follows them in the enclosing text.
C28_CapturedBytesOnly ==
    last.op = "parse" => ParserResult = OnCapturedAlone

\* The same captured bytes accepted at the end of a text and refused
\* inside one.
C28_TailDecides ==
    /\ last.op = "parse" /\ ~last.ret /\ OnCapturedAlone.ok
    /\ inp.n <= kMaxNumberLength

\* More than kMaxNumberLength digits refused before a digit, accepted
\* alone.
C28_LongBeforeDigit ==
    /\ last.op = "parse" /\ ~last.ret /\ OnCapturedAlone.ok
    /\ inp.n > kMaxNumberLength

\* The result depends on the captured bytes only when they are at most
\* kMaxNumberLength and the byte behind them is not an x.
C28_OnlyWhereNumeralCannotGoOn ==
    (last.op = "parse" /\ inp.n <= kMaxNumberLength /\ At(inp.str, inp.n) # "x") =>
        ParserResult = OnCapturedAlone

\* The forward DFA was skipped by one of the two shortcuts.
SkippedByShortcut ==
    Planned /\ last.plan.fwd \in {"skipped for OnePass", "skipped for BitState"}

\* C29: in the anchored dispatch, when the forward DFA is skipped by the
\* OnePass or the BitState shortcut, the capture engine then invoked is
\* OnePass or BitState, never the NFA.
C29_ShortcutEngine ==
    SkippedByShortcut =>
        /\ inp.re_anchor # "UNANCHORED"
        /\ last.plan.engine \in {"OnePass", "BitState"}
        /\ last.plan.fwd = "skipped for OnePass" => last.plan.engine = "OnePass"

\* The BitState shortcut at its limit, 524 bytes under 500 instructions,
\* and BitState searching all of them.
C29_Witness ==
    /\ SkippedByShortcut /\ last.plan.fwd = "skipped for BitState"
    /\ inp.size = 500 /\ inp.tsize = 524 /\ last.plan.esize = 524
    /\ last.plan.engine = "BitState"

\* The BitState shortcut taken on a text too long for the OnePass one, and
\* OnePass extracting the captures.
C29_BitStateShortcutOnePass ==
    /\ SkippedByShortcut /\ last.plan.fwd = "skipped for BitState"
    /\ inp.tsize = 4097 /\ last.plan.engine = "OnePass"

\* The capture indices a template refers to: the d of every \d met when the
\* template is read from byte s on, pair by pair.
RECURSIVE Referenced(_, _)
Referenced(t, s) ==
    IF s > Len(t) THEN {}
    ELSE IF t[s] # "\\" THEN Referenced(t, s + 1)
    ELSE IF s = Len(t) THEN {}
    ELSE IF t[s + 1] = "0" THEN {0} \cup Referenced(t, s + 2)
    ELSE IF t[s + 1] = "9" THEN {9} \cup Referenced(t, s + 2)
    ELSE Referenced(t, s + 2)

\* C30: MaxSubmatch(template) is at most 9 and at least every capture
\* index the template refers to, so in Replace, GlobalReplace and Extract
\* the vector never overflows (1 + MaxSubmatch > 17 does not happen) and
\* Rewrite does not fail for an index >= veclen: it fails for a malformed
\* template only.
C30_MaxSubmatchCovers ==
    last.op = "Substitute" =>
        /\ last.max <= 9
        /\ \A d \in Referenced(inp.rewrite, 1) : d <= last.max
        /\ ~last.overflow /\ 1 + last.max <= 17
        /\ last.ret <=> ~Malformed(inp.rewrite)

\* The template \9\0: MaxSubmatch is 9, and Rewrite emits capture 9 and
\* capture 0.
C30_Witness ==
    /\ last.op = "Substitute" /\ inp.rewrite = <<"\\", "9", "\\", "0">>
    /\ last.max = 9 /\ last.ret /\ last.out = <<"b", "a", "b">>

\* A \9 behind an escaped backslash is no reference: \\9 has MaxSubmatch 0.
C30_EscapedBackslash ==
    /\ last.op = "Substitute" /\ inp.rewrite = <<"\\", "\\", "9">>
    /\ last.max = 0 /\ last.ret /\ last.out = <<"\\", "9">>

\* The plan and the call agree: on every call of Match on a text that
\* reached the switch, MatchPlan applied to the sizes of the call and to
\* what the engines answered gives the engines the call ran and its result.
AnsweredAs(i, ret) ==
    [fwd |-> IF i.fwd \in {"match", "nomatch", "failed"} THEN i.fwd ELSE "match",
     rev |-> IF i.rev = "none" THEN "match" ELSE i.rev,
     msize |-> PieceSize(i.searched),
     rnull |-> i.usedReverse /\ i.rev = "none",
     engine_ok |-> ret]

PlanOfCall ==
    MatchPlan(obj.is_one_pass_, obj.longest_match, obj.prog_.size, Len(inp.text),
              Len(inp.text) - inp.startpos - Len(obj.prefix_), last.info.anchor,
              inp.nsubmatch, NumberOfCapturingGroups(obj),
              AnsweredAs(last.info, last.ret))

PlanAgreesWithMatch ==
    ReachedSwitch =>
        LET Same(p) ==
              /\ p.fwd = last.info.fwd /\ p.rev = last.info.rev
              /\ p.usedReverse = last.info.usedReverse
              /\ p.kind = last.info.kind
              /\ p.engine = last.info.engine /\ p.eanchor = last.info.eanchor
              /\ p.engine # "none" => p.esize = PieceSize(last.info.searched)
              /\ p.ret = last.ret
        IN Same(PlanOfCall)
====
